---- MODULE Spec2Model ----
(***************************************************************************)
(* Model of the cozeloop-go trace pipeline: spans finished by user code,   *)
(* the BatchSpanProcessor with its four queues (span, span_retry, file,    *)
(* file_retry), the exporters wired between them, and the client's         *)
(* Flush / Close.                                                          *)
(***************************************************************************)
EXTENDS Integers, Sequences, FiniteSets, TLC

\* ----------------------------------------------------------------------
\* Bounds of the model.  The queue options of NewBatchSpanProcessor are
\* scaled down (2048/512/50 and 512/5 in the source) keeping their order:
\* retry batch < span batch <= span queue, file batch <= file queue, and
\* file queue length = span batch length.  There is one span more than the
\* span queue holds, so that Finish can meet a full queue.
\* ----------------------------------------------------------------------
NSpans == 3
DefaultMaxQueueLength == 2
DefaultMaxExportBatchLength == 2
MaxRetryExportBatchLength == 1
MaxFileQueueLength == 2
MaxFileExportBatchLength == 2
MaxFinishCalls == 2
NClientSpans == 1
MaxValueBytes == 3
MaxIOBytes == 4
MaxTagKvCountInOneSpan == 2
MaxMutations == 3
MaxNewClientCalls == 3
MaxCloseCalls == 2
MaxRetryTimes == 3
MaxEntries == 2
MaxBatchLen == 2
TraceIDLen == 2
SpanIDLen == 1
TextTruncateCharLength == 2
NCallers == 2
MaxEvents == 3

Spans == 1 .. NSpans

SpanQs == {"span", "span_retry"}
FileQs == {"file", "file_retry"}
Queues == SpanQs \cup FileQs

\* What the extractor makes of a finished span:
\*   "text": plain short output, convertOutput appends a nil file
\*   "file": one attachment (large text or a multimodal part)
\*   "bad" : parseInputOutput fails, the span is skipped
Kinds == {"text", "file", "bad"}

Min(a, b) == IF a < b THEN a ELSE b

VARIABLES
    spanSt,       \* Span.isFinished and existence: "none" | "live" | "fin"
    kind,         \* payload of a finished span as the extractor sees it
    finishing,    \* spans whose Finish won the CAS and has not yet called OnSpanEnd
    finishCalls,  \* number of Finish calls made on each span
    onSpanEnd,    \* number of OnSpanEnd invocations for each span
    queue,        \* the items waiting in each BatchQueueManager
    inflight,     \* the batch each queue's worker has handed to its exportFunc
    stopped,      \* queue has been shut down
    procStopped,  \* BatchSpanProcessor.stopped
    closed,       \* loopClient.closed
    closePc,      \* position of the Close call
    closeErr,     \* Shutdown returned an error (deadline expired)
    closeDirty,   \* a span was finished after Close was called
    flushPc,      \* position of the Flush call
    flushDirty,   \* a span was finished since the Flush call began
    posts,        \* ingest POST attempts that contained the span, per queue
    ingested,     \* successful ingest POSTs that contained the span
    fileAcc,      \* times the attachment of a span entered the file queue
    uploads,      \* upload attempts of the attachment of a span, per queue
    uploaded,     \* successful uploads of the attachment of a span
    lateEnqueue,  \* an export function called Enqueue on a queue already shut down
    postCloseCall, \* the last public call made on the closed client
    obj,          \* the fields of one span, as its mutators see them
    handed,       \* the fields OnSpanEnd received with that span
    mutations,    \* number of mutator calls made on that span
    clientCache,  \* the package's clientCache: entries fingerprint -> client
    clients,      \* the loopClients constructed so far
    returned,     \* the NewClient calls that have returned, in order
    retry,        \* one call of Backoff.Retry: its retryTimes, the results of f, its position
    header,       \* one baggage header: its entries, its text, what fromHeaderBaggage made of it
    transfer,     \* one call of transferToUploadSpanAndFile: its spans and its two results
    gor,          \* goroutines sharing one span: the call each makes, its position, the lock
    started,      \* one Provider.StartSpan call: its inputs, the span, its headers, its Finish
    large,        \* the export of the owner's span: its stage, its input field, its file, the upload requests
    pending,      \* the NewClient call each goroutine is in: its position and its options
    spanCall,     \* the last StartSpan call on a client: the context given and what it returned
    stream        \* one stream reader: the response, the decoder goroutine, its channel

spanVars == <<spanSt, kind, finishing, finishCalls, onSpanEnd>>
queueVars == <<queue, inflight, stopped, procStopped>>
clientVars == <<closed, closePc, closeErr, closeDirty, flushPc, flushDirty>>
histVars == <<posts, ingested, fileAcc, uploads, uploaded, lateEnqueue>>
fieldVars == <<obj, handed, mutations>>
cacheVars == <<clientCache, clients, returned>>
pipelineVars == <<spanVars, queueVars, clientVars, histVars, postCloseCall>>
callVars == <<retry, header, transfer, gor, started, large, pending, spanCall, stream>>
vars == <<pipelineVars, fieldVars, cacheVars, callVars>>

\* ----------------------------------------------------------------------
\* Wiring of the four queues
\* ----------------------------------------------------------------------
\* Mutant: every queue is built with room for one item more.
MaxQueueLength_OneMore(q) ==
    IF q \in SpanQs THEN DefaultMaxQueueLength + 1 ELSE MaxFileQueueLength + 1

MaxQueueLength(q) ==
    IF q \in SpanQs THEN DefaultMaxQueueLength ELSE MaxFileQueueLength

MaxExportBatchLength(q) ==
    CASE q = "span" -> DefaultMaxExportBatchLength
      [] q = "span_retry" -> MaxRetryExportBatchLength
      [] OTHER -> MaxFileExportBatchLength

\* Mutant: the span_retry queue is given itself as its retry queue.
SpanRetryQueue_Loop(q) == "span_retry"

\* Mutant: the span queue is given no retry queue.
SpanRetryQueue_None(q) == "nil"

\* Mutant: the file_retry queue is given itself as its retry queue.
FileRetryQueue_Loop(q) == "file_retry"

\* newExportSpansFunc(exporter, spanRetryQueue, fileQueue)
SpanRetryQueue(q) == IF q = "span" THEN "span_retry" ELSE "nil"
FileQueue(q) == "file"
\* newExportFilesFunc(exporter, fileRetryQueue)
FileRetryQueue(q) == IF q = "file" THEN "file_retry" ELSE "nil"

\* The order in which Shutdown and ForceFlush walk the queues.
\* Mutant: Shutdown takes the queues downstream first.
ShutdownOrder_Reversed == <<"file_retry", "file", "span_retry", "span">>

\* Mutant: ForceFlush takes the queues downstream first.
ForceFlushOrder_Reversed == <<"file_retry", "file", "span_retry", "span">>

ShutdownOrder == <<"span", "span_retry", "file", "file_retry">>
ForceFlushOrder == <<"span", "span_retry", "file", "file_retry">>

\* The queue an order visits after q, "end" after the last one.
After(order, q) ==
    LET i == CHOOSE j \in DOMAIN order : order[j] = q
    IN  IF i = Len(order) THEN "end" ELSE order[i + 1]

\* ----------------------------------------------------------------------
\* BatchQueueManager
\* ----------------------------------------------------------------------
\* Mutant: Enqueue goes on accepting after the queue has been shut down.
Accepted_AfterShutdown(q, xs) ==
    SubSeq(xs, 1, Min(Len(xs), MaxQueueLength(q) - Len(queue[q])))

\* The items of xs that Enqueue accepts, one call per item in order: none
\* once the queue has been shut down, and only as many as still fit.
Accepted(q, xs) ==
    IF stopped[q] THEN <<>>
    ELSE SubSeq(xs, 1, Min(Len(xs), MaxQueueLength(q) - Len(queue[q])))

Drained(q) == queue[q] = <<>> /\ inflight[q] = <<>>

Count(xs, x) == Cardinality({i \in DOMAIN xs : xs[i] = x})

\* ----------------------------------------------------------------------
\* The fields of a span and its mutators
\* ----------------------------------------------------------------------
\* Tag keys: a reserved one, the two input/output keys, a plain one and one
\* that holds a baggage delimiter.
TagKeys == {"error", "input", "output", "k1", "k,2"}

\* A value is a text, its length in bytes and its runtime type.
TagValues ==
    {[text |-> "s", bytes |-> 1, type |-> "string"],
     [text |-> "a b", bytes |-> 3, type |-> "string"],
     [text |-> "mid", bytes |-> MaxValueBytes + 1, type |-> "string"],
     [text |-> "long", bytes |-> MaxIOBytes + MaxValueBytes, type |-> "string"]}

\* The runtime types a caller passes for a reserved key, and one value of each.
ValueTypes == {"string", "int", "int32", "int64", "float64"}
TypedValues == {[text |-> "7", bytes |-> 1, type |-> t] : t \in ValueTypes}

\* consts.ReserveFieldTypes
ReserveFieldTypes ==
    [key \in {"user_id", "message_id", "thread_id", "input_tokens", "output_tokens",
              "tokens", "start_time_first_resp", "latency_first_resp"} |->
        IF key \in {"user_id", "message_id", "thread_id"}
          THEN {"string"}
          ELSE {"int64", "int", "int32"}]

\* The keys of the reserved-key table: those of consts.ReserveFieldTypes and
\* the error and status code keys.
ReservedTagKeys == DOMAIN ReserveFieldTypes \cup {"error", "_status_code"}

\* The keys the SDK itself writes into the system tags.
SystemTagKeys == {"cut_off", "runtime"}

StatusCodes == {0, 1, 2}

KeyLen(key) ==
    IF key \in {"error", "input"} THEN 5
    ELSE IF key \in {"output", "tokens"} THEN 6
    ELSE IF key \in {"user_id", "cut_off", "runtime"} THEN 7
    ELSE IF key = "thread_id" THEN 9
    ELSE IF key = "message_id" THEN 10
    ELSE IF key \in {"input_tokens", "_status_code"} THEN 12
    ELSE IF key = "output_tokens" THEN 13
    ELSE IF key = "latency_first_resp" THEN 18
    ELSE IF key = "start_time_first_resp" THEN 21
    ELSE 3

\* util.GetTagValueSizeLimit
GetTagValueSizeLimit(key) ==
    IF key \in {"input", "output"} THEN MaxIOBytes ELSE MaxValueBytes

\* util.TruncateStringByByte: the first limit bytes of the value.
TruncateStringByByte(v, limit) ==
    IF v.bytes > limit THEN [v EXCEPT !.bytes = limit] ELSE v

\* url.QueryEscape: a space becomes '+', a comma "%2C".
QueryEscape(str) ==
    IF str = "a b" THEN "a+b" ELSE IF str = "k,2" THEN "k%2C2" ELSE str

\* The span Provider.startSpan builds: the receiver is not nil, both tag maps
\* are made and the span processor is set.
NewSpan(ultraLargeReport) ==
    [isNil |-> FALSE,
     TagMap |-> [k \in {} |-> [text |-> "s", bytes |-> 1, type |-> "string"]],
     tagMapIsNil |-> FALSE,
     cutOff |-> {},
     runtime |-> FALSE,
     systemTagMapIsNil |-> FALSE,
     StatusCode |-> 0,
     Baggage |-> [k \in {} |-> "s"],
     multiModalityKeyMap |-> {},
     ultraLargeReport |-> ultraLargeReport,
     spanProcessor |-> "processor",
     isFinished |-> 0,
     bytesSize |-> 0,
     Duration |-> "zero",
     panicked |-> FALSE]

\* &Span{}: every field holds its zero value, so the two tag maps and the
\* span processor are nil.
ZeroSpan ==
    [NewSpan(FALSE) EXCEPT !.tagMapIsNil = TRUE, !.systemTagMapIsNil = TRUE,
                           !.spanProcessor = "nil"]

\* (*Span)(nil)
NilSpan == [ZeroSpan EXCEPT !.isNil = TRUE]

\* A write to a nil map, or a method call on a nil interface, panics.
Panic(o) == [o EXCEPT !.panicked = TRUE]

\* The keys the system tag map holds.
SystemTagMapKeys(o) ==
    (IF o.cutOff # {} THEN {"cut_off"} ELSE {}) \cup (IF o.runtime THEN {"runtime"} ELSE {})

\* consts.StatusCodeErrorDefault
StatusCodeErrorDefault == -1

\* A default that overwrites a status code already set.
addDefaultTag_Overwrite(o, key) ==
    IF key = "error" THEN [o EXCEPT !.StatusCode = StatusCodeErrorDefault] ELSE o

\* addDefaultTag: the error tag turns status code 0 into the default error code.
addDefaultTag(o, key) ==
    IF key = "error" /\ o.StatusCode = 0
      THEN [o EXCEPT !.StatusCode = StatusCodeErrorDefault]
      ELSE o

\* A type check that passes every value.
isTagValidDataType_AnyType(key, value) == TRUE

\* isTagValidDataType
isTagValidDataType(key, value) ==
    key \in DOMAIN ReserveFieldTypes /\ value.type \in ReserveFieldTypes[key]

\* isCanCutOff, over ValueTypes: only a string is turned into valueStr.
isCanCutOff(value) == value.type = "string"
valueStrBytes(value) == IF isCanCutOff(value) THEN value.bytes ELSE 0

\* GetRectifiedMap, for the one entry key: value of the map passed in. The
\* entry is skipped when the key is in ReserveFieldTypes and the type is not
\* one of its types.
isSkipped(key, value) ==
    key \in DOMAIN ReserveFieldTypes /\ ~isTagValidDataType(key, value)
isTruncate(key, value) == valueStrBytes(value) > GetTagValueSizeLimit(key)
isUltraLargeReport(o, key, value) ==
    isTruncate(key, value) /\ key \notin o.multiModalityKeyMap /\ o.ultraLargeReport
isCutOff(o, key, value) ==
    isTruncate(key, value) /\ key \notin o.multiModalityKeyMap /\ ~o.ultraLargeReport
RectifiedValue(o, key, value) ==
    IF isCutOff(o, key, value)
      THEN TruncateStringByByte(value, GetTagValueSizeLimit(key))
      ELSE value
RectifiedBytes(o, key, value) ==
    KeyLen(key) +
    (IF key \notin o.multiModalityKeyMap /\ ~isUltraLargeReport(o, key, value)
       THEN valueStrBytes(value) ELSE 0)

\* setCutOffTag: the keys join the cut_off system tag; the write panics on a
\* nil system tag map.
setCutOffTag(o, cutOffKeys) ==
    IF o.systemTagMapIsNil THEN Panic(o) ELSE [o EXCEPT !.cutOff = @ \cup cutOffKeys]

\* setTagUnlock: the write panics on a nil tag map.
setTagUnlock(o, key, value) ==
    IF o.tagMapIsNil
      THEN Panic(o)
      ELSE [o EXCEPT !.TagMap = [k \in DOMAIN o.TagMap \cup {key} |->
                                    IF k = key THEN value ELSE o.TagMap[k]]]

\* setTagItem: the entry is stored while the map holds fewer than the limit.
setTagItem(o, key, value) ==
    IF Cardinality(DOMAIN o.TagMap) < MaxTagKvCountInOneSpan
      THEN setTagUnlock(o, key, value)
      ELSE o

\* Span.SetTags with a map of one entry.
SetTags(o, key, value) ==
    IF o.isNil THEN o
    ELSE LET o1 == addDefaultTag(o, key)
             o2 == [o1 EXCEPT !.bytesSize = @ + RectifiedBytes(o1, key, value)]
             o3 == IF isCutOff(o1, key, value) THEN setCutOffTag(o2, {key}) ELSE o2
         IN  IF isSkipped(key, value) THEN o1
             ELSE IF o3.panicked THEN o3
             ELSE setTagItem(o3, key, RectifiedValue(o1, key, value))

\* Span.SetError
SetError(o, err) == IF o.isNil THEN o ELSE SetTags(o, "error", err)

\* Span.SetStatusCode
SetStatusCode(o, code) == IF o.isNil THEN o ELSE [o EXCEPT !.StatusCode = code]

\* SetMultiModalityMap: the map is made when it is nil.
SetMultiModalityMap(o, key) == [o EXCEPT !.multiModalityKeyMap = @ \cup {key}]

\* SetMultiModalityMap and the size of the model input, then SetTags.
SetInputOutput(o, key, isMultiModality, value) ==
    IF o.isNil THEN o
    ELSE LET o1 == IF isMultiModality
                     THEN [SetMultiModalityMap(o, key) EXCEPT !.bytesSize = @ + value.bytes]
                     ELSE o
         IN  SetTags(o1, key, value)

\* Span.SetInput, Span.SetOutput
SetInput(o, isMultiModality, value) == SetInputOutput(o, "input", isMultiModality, value)
SetOutput(o, isMultiModality, value) == SetInputOutput(o, "output", isMultiModality, value)

\* isValidBaggageItem: size check, then special character check. Every key
\* of TagKeys is within the key size limit.
hasSpecialChar(str) == str = "k,2"
isValidBaggageItem(key, value) ==
    /\ value.bytes <= GetTagValueSizeLimit(key)
    /\ ~hasSpecialChar(key)

\* SetBaggageItem: the map is made when it is nil.
SetBaggageItem(o, key, str) ==
    [o EXCEPT !.Baggage = [k \in DOMAIN o.Baggage \cup {key} |->
                              IF k = key THEN str ELSE o.Baggage[k]]]

\* Span.SetBaggage with one item: the tag, then the escaped baggage item.
SetBaggage(o, key, value) ==
    IF o.isNil \/ ~isValidBaggageItem(key, value) THEN o
    ELSE LET o1 == SetTags(o, key, value)
         IN  IF o1.panicked THEN o1
             ELSE SetBaggageItem(o1, QueryEscape(key), QueryEscape(value.text))

\* setSystemTag: the system tag map is made when it is nil, then the runtime
\* tag is stored.
setSystemTag(o) == [o EXCEPT !.systemTagMapIsNil = FALSE, !.runtime = TRUE]

\* setStatInfo: latency_first_resp and tokens are derived from the tags that
\* are present and set with SetTags, then the duration is stored.
DerivedValue == [text |-> "derived", bytes |-> 1, type |-> "int64"]
setStatInfo(o) ==
    LET tagMap == DOMAIN o.TagMap
        o1 == IF "start_time_first_resp" \in tagMap
                THEN SetTags(o, "latency_first_resp", DerivedValue) ELSE o
        o2 == IF o1.panicked THEN o1
              ELSE IF "input_tokens" \in tagMap \/ "output_tokens" \in tagMap
                THEN SetTags(o1, "tokens", DerivedValue) ELSE o1
    IN  IF o2.panicked THEN o2 ELSE [o2 EXCEPT !.Duration = "elapsed"]

\* What Span.Finish does to the fields once the compare-and-swap succeeded.
FinishFields(o) ==
    setStatInfo(setSystemTag([o EXCEPT !.isFinished = 1]))

\* The fields a finished span must keep.
Fields(o) ==
    [tags |-> o.TagMap, cutOff |-> o.cutOff, runtime |-> o.runtime,
     baggage |-> o.Baggage, multiModalityKeys |-> o.multiModalityKeyMap,
     statusCode |-> o.StatusCode, bytesSize |-> o.bytesSize]

\* A mutator call of the owner: the method runs on the span whatever its
\* finished flag says, none of them reads it. A panic ends the program.
Mutate(o) ==
    /\ ~obj.panicked
    /\ mutations < MaxMutations
    /\ mutations' = mutations + 1
    /\ obj' = o
    /\ UNCHANGED <<handed, spanVars, queueVars, clientVars, histVars, postCloseCall>>
    /\ UNCHANGED cacheVars
    /\ UNCHANGED callVars

DoSetTags == \E key \in TagKeys, value \in TagValues : Mutate(SetTags(obj, key, value))
DoSetError == \E err \in TagValues : Mutate(SetError(obj, err))
DoSetStatusCode == \E code \in StatusCodes : Mutate(SetStatusCode(obj, code))
DoSetInput == \E mm \in BOOLEAN, value \in TagValues : Mutate(SetInput(obj, mm, value))
DoSetOutput == \E mm \in BOOLEAN, value \in TagValues : Mutate(SetOutput(obj, mm, value))
DoSetBaggage == \E key \in TagKeys, value \in TagValues : Mutate(SetBaggage(obj, key, value))

\* SetTags with a key of the reserved-key table or an SDK-owned key.
ReservedTagKeysPassed ==
    {"user_id", "input_tokens", "start_time_first_resp", "error", "_status_code"}
DoSetReservedTags ==
    \E key \in ReservedTagKeysPassed, value \in TypedValues : Mutate(SetTags(obj, key, value))
DoSetSystemKeyTags ==
    \E key \in SystemTagKeys, value \in TagValues : Mutate(SetTags(obj, key, value))

\* SetTags with the key error.
DoSetErrorTags == \E value \in TagValues : Mutate(SetTags(obj, "error", value))

\* Span.Finish on that span: a nil receiver returns; the first call fills the
\* system tag and the duration and hands the span to OnSpanEnd, which panics
\* when the span processor is nil; a later call returns at once.
FinishSpan ==
    /\ ~obj.panicked
    /\ IF obj.isNil \/ obj.isFinished # 0
         THEN UNCHANGED <<obj, handed>>
         ELSE IF FinishFields(obj).panicked \/ obj.spanProcessor = "nil"
           THEN /\ obj' = Panic(FinishFields(obj))
                /\ UNCHANGED handed
           ELSE /\ obj' = FinishFields(obj)
                /\ handed' = Append(handed, Fields(FinishFields(obj)))
    /\ UNCHANGED <<mutations, spanVars, queueVars, clientVars, histVars, postCloseCall>>
    /\ UNCHANGED cacheVars
    /\ UNCHANGED callVars

\* ----------------------------------------------------------------------
\* Initial state
\* ----------------------------------------------------------------------
\* The first n spans are in state st when the run begins; the others are
\* never used.
InitBase(n, st, objs) ==
    /\ spanSt = [s \in Spans |-> IF s <= n THEN st ELSE "off"]
    /\ kind = [s \in Spans |-> "none"]
    /\ finishing = {}
    /\ finishCalls = [s \in Spans |-> 0]
    /\ onSpanEnd = [s \in Spans |-> 0]
    /\ queue = [q \in Queues |-> <<>>]
    /\ inflight = [q \in Queues |-> <<>>]
    /\ stopped = [q \in Queues |-> FALSE]
    /\ procStopped = FALSE
    /\ closed = FALSE
    /\ closePc = "idle"
    /\ closeErr = FALSE
    /\ closeDirty = FALSE
    /\ flushPc = "idle"
    /\ flushDirty = FALSE
    /\ posts = [s \in Spans |-> [q \in SpanQs |-> 0]]
    /\ ingested = [s \in Spans |-> 0]
    /\ fileAcc = [s \in Spans |-> 0]
    /\ uploads = [s \in Spans |-> [q \in FileQs |-> 0]]
    /\ uploaded = [s \in Spans |-> 0]
    /\ lateEnqueue = FALSE
    /\ postCloseCall = [op |-> "none", res |-> "none"]
    /\ obj \in objs
    /\ handed = <<>>
    /\ mutations = 0
    /\ clientCache = {}
    /\ clients = <<>>
    /\ returned = <<>>

\* A baggage map with no item.
NoBaggage == [k \in {} |-> <<>>]

\* StartSpanOptions with nothing set: empty ids, a nil baggage map, the zero
\* start time.
NoOptions ==
    [TraceID |-> <<>>, ParentSpanID |-> <<>>,
     Baggage |-> [isNil |-> TRUE, items |-> NoBaggage],
     StartNewTrace |-> FALSE, StartTime |-> 0]

\* A context that carries no span.
NoParent == [isNil |-> TRUE, TraceID |-> <<>>, SpanID |-> <<>>, Baggage |-> NoBaggage]

\* No StartSpan call has been made.
NotStarted ==
    [pc |-> "idle", opts |-> NoOptions, parent |-> NoParent,
     span |-> [TraceID |-> <<>>, SpanID |-> <<>>, ParentSpanID |-> <<>>,
               Baggage |-> NoBaggage, StartTime |-> 0, Duration |-> 0],
     finished |-> FALSE, finishTime |-> 0,
     header |-> [parent |-> <<>>, baggage |-> <<>>],
     ctx |-> [TraceID |-> <<>>, SpanID |-> <<>>, Baggage |-> NoBaggage]]

\* The goroutines that call NewClient.
Callers == 1 .. NCallers

\* No goroutine is in NewClient.
NoPending ==
    [g \in Callers |->
        [pc |-> "idle", opts |-> [workspaceID |-> "", apiToken |-> "", jwtOAuthClientID |-> ""]]]

\* The nil context.Context.
NilCtx == [isNil |-> TRUE, base |-> "nil", span |-> "none"]

\* No StartSpan call has been made on a client.
NoSpanCall ==
    [client |-> "none", wasClosed |-> FALSE, ctx |-> NilCtx, resCtx |-> NilCtx,
     resSpan |-> "none"]

\* No stream reader has been made.
NoStream ==
    [pc |-> "idle", response |-> <<>>, tail |-> "eof", body |-> "open",
     item |-> "none", events |-> <<>>, eventsClosed |-> FALSE,
     closed |-> FALSE, ctxDone |-> FALSE]

\* No upload file.
NoFile ==
    [isNil |-> TRUE, TosKey |-> <<>>, Data |-> [text |-> "", bytes |-> 0, type |-> "string"],
     UploadType |-> "", TagKey |-> ""]

\* The owner's span has not been handed to the exporter.
NotExported ==
    [pc |-> "span", src |-> NoFile.Data, input |-> NoFile.Data, file |-> NoFile,
     requests |-> <<>>]

\* The goroutines that share one span: its owner, the goroutine calling
\* Finish, and a reader (a child StartSpan or the exporter).
Goroutines == {"owner", "finisher", "reader"}

\* No goroutine has a call under way.
NoGoroutines ==
    [op |-> [g \in Goroutines |-> "none"], pc |-> [g \in Goroutines |-> 1], lock |-> "free"]

\* No call of a stand-alone function is under way.
InitCalls ==
    /\ retry = [retryTimes |-> 0, results |-> <<>>, pc |-> "idle", err |-> "nil"]
    /\ header = [entries |-> <<>>, text |-> <<>>, pc |-> "idle", baggage |-> NoBaggage]
    /\ transfer = [spans |-> <<>>, pc |-> "idle", resSpan |-> <<>>, resFile |-> <<>>]
    /\ gor = NoGoroutines
    /\ started = NotStarted
    /\ large = NotExported
    /\ pending = NoPending
    /\ spanCall = NoSpanCall
    /\ stream = NoStream

InitWith(n, st, objs) == InitBase(n, st, objs) /\ InitCalls

\* ----------------------------------------------------------------------
\* loopClient: every public method tests c.closed first
\* ----------------------------------------------------------------------
ClientOps == {"GetPrompt", "PromptFormat", "StartSpan", "GetSpanFromContext",
              "GetSpanFromHeader", "Flush"}

\* What a method returns without going to a provider once the client is closed.
ClosedResult(op) ==
    CASE op \in {"GetPrompt", "PromptFormat"} -> "ErrClientClosed"
      [] op \in {"StartSpan", "GetSpanFromContext", "GetSpanFromHeader"} -> "noopSpan"
      [] OTHER -> "return"

\* Mutant: Close does not test the closed flag.
loopClientCall_CloseUnchecked(op, isClosed) ==
    IF isClosed /\ op # "Close" THEN ClosedResult(op) ELSE "provider"

\* Mutant: StartSpan does not test the closed flag.
loopClientCall_StartSpanUnchecked(op, isClosed) ==
    IF isClosed /\ op # "StartSpan" THEN ClosedResult(op) ELSE "provider"

\* The result of public method op on a client whose closed flag is isClosed:
\* the fixed closed result, or whatever the trace / prompt provider gives.
loopClientCall(op, isClosed) ==
    IF isClosed THEN ClosedResult(op) ELSE "provider"

\* ----------------------------------------------------------------------
\* NewClient and the client cache
\* ----------------------------------------------------------------------
\* The options a caller passes. The fields not listed keep their defaults.
WorkspaceIDs == {"", "123", "456"}
ApiTokens == {"token", "token\t"}
JwtOAuthClientIDs == {"", "\t"}

Options ==
    [workspaceID : WorkspaceIDs, apiToken : ApiTokens, jwtOAuthClientID : JwtOAuthClientIDs]

\* checkOptions: the workspace id is required (the base url and the http
\* client have defaults).
checkOptions(o) == IF o.workspaceID = "" THEN "ErrInvalidParam" ELSE "nil"

\* options.MD5: every field followed by the separator, in the order of the
\* source, then hashed. The digest is represented by the text it is taken of.
MD5(o) ==
    LET separator == "\t"
    IN  "https://api.coze.cn" \o separator
        \o o.workspaceID \o separator
        \o "0xc000010000" \o separator
        \o "3s" \o separator
        \o "30s" \o separator
        \o o.apiToken \o separator
        \o o.jwtOAuthClientID \o separator
        \o "" \o separator
        \o "" \o separator
        \o "false" \o separator
        \o "100" \o separator
        \o "10m0s" \o separator
        \o "false" \o separator

\* clientCache.Load
clientCacheLoad(key) ==
    IF \E e \in clientCache : e.key = key
      THEN (CHOOSE e \in clientCache : e.key = key).client
      ELSE 0

\* NewClient(opts...): the cached client for the fingerprint of the options,
\* or a newly built client, which is then stored under that fingerprint.
NewClient(o) ==
    /\ Len(returned) < MaxNewClientCalls
    /\ IF checkOptions(o) # "nil"
         THEN /\ returned' = Append(returned,
                     [opts |-> o, client |-> 0, err |-> checkOptions(o),
                      startSpan |-> "none"])
              /\ UNCHANGED <<clientCache, clients>>
         ELSE LET cacheKey == MD5(o)
                  c == IF clientCacheLoad(cacheKey) # 0 THEN clientCacheLoad(cacheKey) ELSE Len(clients) + 1
              IN  /\ clients' = IF clientCacheLoad(cacheKey) # 0 THEN clients
                                ELSE Append(clients,
                                       [opts |-> o, closed |-> FALSE,
                                        closeCalls |-> 0, shutdownCalls |-> 0])
                  /\ clientCache' = IF clientCacheLoad(cacheKey) # 0 THEN clientCache
                                    ELSE clientCache \cup {[key |-> cacheKey, client |-> c]}
                  /\ returned' = Append(returned,
                         [opts |-> o, client |-> c, err |-> "nil",
                          startSpan |-> loopClientCall("StartSpan", clients'[c].closed)])
    /\ UNCHANGED <<pipelineVars, fieldVars>>
    /\ UNCHANGED callVars

\* loopClient.Close on client c: CloseTrace, which calls the processor's
\* Shutdown, unless the client is closed already; then closed is set.
Close(c) ==
    /\ c \in DOMAIN clients
    /\ clients[c].closeCalls < MaxCloseCalls
    /\ clients' = [clients EXCEPT ![c] =
          IF loopClientCall("Close", @.closed) = "provider"
            THEN [@ EXCEPT !.closeCalls = @ + 1, !.shutdownCalls = @ + 1, !.closed = TRUE]
            ELSE [@ EXCEPT !.closeCalls = @ + 1]]
    /\ UNCHANGED <<clientCache, returned, pipelineVars, fieldVars>>
    /\ UNCHANGED callVars

DoNewClient == \E o \in Options : NewClient(o)

\* The contexts a caller passes to StartSpan: context.Background(), and a
\* context that carries a span.
CallerContexts ==
    {[isNil |-> FALSE, base |-> "background", span |-> "none"],
     [isNil |-> FALSE, base |-> "background", span |-> "parent"]}

\* context.WithValue(ctx, loopSpanKey{}, s)
WithValue(ctx, s) == [ctx EXCEPT !.span = s]

\* loopClient.StartSpan: the no-op span on a closed client, else the context
\* and the span of Provider.StartSpan, which injects the span into ctx and
\* returns no error.
loopClientStartSpan(isClosed, ctx) ==
    IF isClosed THEN [ctx |-> NilCtx, span |-> "noopSpan"]
    ELSE [ctx |-> WithValue(ctx, "span"), span |-> "span"]

\* noopClient.StartSpan
noopClientStartSpan(ctx) == [ctx |-> ctx, span |-> "noopSpan"]

\* StartSpan called with ctx on client c, or on the no-op client (c = 0).
ClientStartSpan(c, ctx) ==
    /\ c \in DOMAIN clients \cup {0}
    /\ LET res == IF c = 0 THEN noopClientStartSpan(ctx)
                  ELSE loopClientStartSpan(clients[c].closed, ctx)
       IN  spanCall' = [client |-> IF c = 0 THEN "noop" ELSE "loop",
                        wasClosed |-> IF c = 0 THEN FALSE ELSE clients[c].closed,
                        ctx |-> ctx, resCtx |-> res.ctx, resSpan |-> res.span]
    /\ UNCHANGED <<pipelineVars, fieldVars, cacheVars>>
    /\ UNCHANGED <<retry, header, transfer, gor, started, large, pending, stream>>

DoClientStartSpan ==
    \E c \in DOMAIN clients \cup {0}, ctx \in CallerContexts : ClientStartSpan(c, ctx)

\* clientCache.Store: the entry of the key is replaced.
clientCacheStore(key, c) ==
    {e \in clientCache : e.key # key} \cup {[key |-> key, client |-> c]}

\* NewClient called by goroutine g, up to and including clientCache.Load:
\* invalid options and a cached client return at once, otherwise g goes on
\* to build a client.
NewClientLoad(g, o) ==
    /\ pending[g].pc = "idle"
    /\ Len(returned) < MaxNewClientCalls
    /\ IF checkOptions(o) # "nil"
         THEN /\ returned' = Append(returned,
                     [opts |-> o, client |-> 0, err |-> checkOptions(o),
                      startSpan |-> "none"])
              /\ UNCHANGED pending
         ELSE IF clientCacheLoad(MD5(o)) # 0
           THEN /\ returned' = Append(returned,
                       [opts |-> o, client |-> clientCacheLoad(MD5(o)), err |-> "nil",
                        startSpan |-> loopClientCall("StartSpan",
                                          clients[clientCacheLoad(MD5(o))].closed)])
                /\ UNCHANGED pending
           ELSE /\ pending' = [pending EXCEPT ![g] = [pc |-> "build", opts |-> o]]
                /\ UNCHANGED returned
    /\ UNCHANGED <<clientCache, clients, pipelineVars, fieldVars>>
    /\ UNCHANGED <<retry, header, transfer, gor, started, large, spanCall, stream>>

\* The rest of NewClient in goroutine g: the client is built (its trace
\* provider starts the four queue workers), stored under the fingerprint of
\* the options and returned.
NewClientStore(g) ==
    /\ pending[g].pc = "build"
    /\ LET o == pending[g].opts
           c == Len(clients) + 1
       IN  /\ clients' = Append(clients, [opts |-> o, closed |-> FALSE,
                                          closeCalls |-> 0, shutdownCalls |-> 0])
           /\ clientCache' = clientCacheStore(MD5(o), c)
           /\ returned' = Append(returned,
                  [opts |-> o, client |-> c, err |-> "nil",
                   startSpan |-> loopClientCall("StartSpan", FALSE)])
    /\ pending' = [pending EXCEPT ![g].pc = "idle"]
    /\ UNCHANGED <<pipelineVars, fieldVars>>
    /\ UNCHANGED <<retry, header, transfer, gor, started, large, spanCall, stream>>

DoNewClientLoad == \E g \in Callers, o \in Options : NewClientLoad(g, o)
DoNewClientStore == \E g \in Callers : NewClientStore(g)
DoClose == \E c \in DOMAIN clients : Close(c)

\* ----------------------------------------------------------------------
\* Trace context headers
\* ----------------------------------------------------------------------
\* A string is the sequence of its characters.
RECURSIVE SplitFrom(_, _, _, _)
SplitFrom(str, sep, i, cur) ==
    IF i > Len(str) THEN <<cur>>
    ELSE IF str[i] = sep THEN <<cur>> \o SplitFrom(str, sep, i + 1, <<>>)
    ELSE SplitFrom(str, sep, i + 1, Append(cur, str[i]))

\* strings.Split
Split(str, sep) == SplitFrom(str, sep, 1, <<>>)

\* strings.Join
RECURSIVE Join(_, _)
Join(strs, sep) ==
    IF strs = <<>> THEN <<>>
    ELSE IF Len(strs) = 1 THEN strs[1]
    ELSE strs[1] \o <<sep>> \o Join(Tail(strs), sep)

\* strings.TrimSpace
RECURSIVE TrimLeft(_)
TrimLeft(str) == IF str # <<>> /\ str[1] = " " THEN TrimLeft(Tail(str)) ELSE str
RECURSIVE TrimRight(_)
TrimRight(str) ==
    IF str # <<>> /\ str[Len(str)] = " " THEN TrimRight(SubSeq(str, 1, Len(str) - 1)) ELSE str
TrimSpace(str) == TrimRight(TrimLeft(str))

\* The hexadecimal digits among the characters used.
HexDigits == {"0", "1", "2", "3", "5", "a", "b", "c", "B", "C", "D"}

\* The character a %xx escape stands for; "?" is any byte the model does not
\* tell apart.
Unhex(hi, lo) ==
    CASE hi = "2" /\ lo = "C" -> ","
      [] hi = "3" /\ lo = "D" -> "="
      [] hi = "2" /\ lo = "5" -> "%"
      [] hi = "2" /\ lo = "B" -> "+"
      [] hi = "2" /\ lo = "0" -> " "
      [] OTHER -> "?"

\* url.QueryUnescape: '+' is a space, '%' and two hexadecimal digits are a
\* byte, '%' followed by anything else is an error.
RECURSIVE QueryUnescape(_)
QueryUnescape(str) ==
    IF str = <<>> THEN [err |-> FALSE, val |-> <<>>]
    ELSE IF str[1] = "%"
      THEN IF Len(str) >= 3 /\ str[2] \in HexDigits /\ str[3] \in HexDigits
             THEN LET rest == QueryUnescape(SubSeq(str, 4, Len(str)))
                  IN  [err |-> rest.err, val |-> <<Unhex(str[2], str[3])>> \o rest.val]
             ELSE [err |-> TRUE, val |-> <<>>]
      ELSE LET rest == QueryUnescape(Tail(str))
           IN  [err |-> rest.err,
                val |-> <<IF str[1] = "+" THEN " " ELSE str[1]>> \o rest.val]

\* baggage[key] = value
Put(baggage, key, value) ==
    [k \in DOMAIN baggage \cup {key} |-> IF k = key THEN value ELSE baggage[k]]

\* parseCommaSeparatedMap from entry i of the split header on: an entry that
\* does not split into two at '=' is passed over; when the key or the value
\* cannot be unescaped the function returns what it has so far.
RECURSIVE parseEntries(_, _, _, _)
parseEntries(s, i, cover, baggage) ==
    IF i > Len(s) THEN baggage
    ELSE LET kv == Split(TrimSpace(s[i]), "=")
             tempKey == QueryUnescape(kv[1])
             tempValue == QueryUnescape(kv[2])
         IN  IF Len(kv) # 2 THEN parseEntries(s, i + 1, cover, baggage)
             ELSE IF tempKey.err THEN baggage
             ELSE IF tempValue.err THEN baggage
             ELSE IF tempKey.val \notin DOMAIN baggage \/ cover
               THEN parseEntries(s, i + 1, cover, Put(baggage, tempKey.val, tempValue.val))
               ELSE parseEntries(s, i + 1, cover, baggage)

parseCommaSeparatedMap(src, cover) == parseEntries(Split(src, ","), 1, cover, NoBaggage)

\* fromHeaderBaggage
fromHeaderBaggage(h) == parseCommaSeparatedMap(h, TRUE)

\* The entries a peer may send in a baggage header: well-formed ones (plain,
\* escaped, padded with a space), entries with no or two '=', and entries
\* whose key or value holds a broken escape.
HeaderEntries ==
    {<<"a", "=", "1">>, <<"b", "=", "%", "2", "C">>, <<" ", "a", "=", "2">>,
     <<"a">>, <<"a", "=", "1", "=", "2">>,
     <<"%", "z", "=", "1">>, <<"b", "=", "%">>}

\* FromHeader on a request whose baggage header holds the given text.
ParseBaggageHeader ==
    /\ header.pc = "received"
    /\ header' = [header EXCEPT !.pc = "parsed", !.baggage = fromHeaderBaggage(header.text)]
    /\ UNCHANGED <<pipelineVars, fieldVars, cacheVars, retry, transfer, gor, started, large, pending, spanCall, stream>>

\* ----------------------------------------------------------------------
\* Provider.StartSpan, Span.ToHeader, FromHeader
\* ----------------------------------------------------------------------
\* The string of n characters c.
Repeat(c, n) == [i \in 1 .. n |-> c]

\* util.Gen32CharID, util.Gen16CharID: hexadecimal ids of the full length.
Gen32CharID == Repeat("a", TraceIDLen)
Gen16CharID == Repeat("b", SpanIDLen)

\* The trace ids a caller passes in StartSpanOptions: none, a well-formed
\* one, one that is too short, the all-zero id, one holding a '-'.
OptionTraceIDs ==
    {<<>>, Repeat("1", TraceIDLen), Repeat("1", TraceIDLen - 1), Repeat("0", TraceIDLen),
     <<"-">> \o Repeat("1", TraceIDLen - 1)}

\* The parent span ids a caller passes: none, or some id.
OptionParentSpanIDs == {<<>>, <<"5">>}

\* One baggage item as a map.
oneBaggage(k, v) == [key \in {k} |-> v]

\* The baggage maps a caller passes: nil, empty, a plain item, values that
\* hold a delimiter or a percent sign, a key that holds a delimiter.
OptionBaggages ==
    {[isNil |-> TRUE, items |-> NoBaggage]} \cup
    {[isNil |-> FALSE, items |-> m] :
        m \in {NoBaggage,
               oneBaggage(<<"k">>, <<"v">>),
               oneBaggage(<<"k">>, <<"v", ",", "w">>),
               oneBaggage(<<"k">>, <<"v", "=", "w">>),
               oneBaggage(<<"k">>, <<"%">>),
               oneBaggage(<<"k", ",">>, <<"v">>)}}

\* The start times a caller passes, in nanoseconds: none (the zero time), a
\* time before the call, the time of the call, a time after Finish.
OptionStartTimes == {0, 1500, 2000, 9000}

\* time.Now() in StartSpan and in Finish, in nanoseconds.
StartNows == {2000}
FinishNows == {2000, 2999, 3500}

\* The spans a context carries: none, or a span of another trace whose owner
\* set the baggage item "k w" = "v,w", stored escaped.
ContextSpans ==
    {NoParent,
     [isNil |-> FALSE, TraceID |-> Repeat("c", TraceIDLen), SpanID |-> Repeat("c", SpanIDLen),
      Baggage |-> oneBaggage(<<"k", "+", "w">>, <<"v", "%", "2", "C", "w">>)]}

\* hasSpecialChar over characters: consts.BaggageSpecialChars are '=' and ','.
hasSpecialChars(str) == \E i \in DOMAIN str : str[i] \in {"=", ","}

\* A check that lets every item pass.
isValidBaggageChars_Any(key, value) == TRUE

\* isValidBaggageItem over characters; every key and value used is within
\* the size limits.
isValidBaggageChars(key, value) == ~hasSpecialChars(key)

\* setBaggage with escape false on the fresh span of startSpan: the valid
\* items are stored as they are.
setBaggage(baggageItems) ==
    [k \in {key \in DOMAIN baggageItems : isValidBaggageChars(key, baggageItems[key])} |->
        baggageItems[k]]

\* Provider.startSpan
startSpan(options, now) ==
    [TraceID |-> IF options.TraceID # <<>> THEN options.TraceID ELSE Gen32CharID,
     SpanID |-> Gen16CharID,
     ParentSpanID |-> IF options.ParentSpanID # <<>> THEN options.ParentSpanID ELSE <<"0">>,
     Baggage |-> setBaggage(options.Baggage.items),
     StartTime |-> IF options.StartTime # 0 THEN options.StartTime ELSE now,
     Duration |-> 0]

\* A resolution that takes the parent's values whatever StartNewTrace says.
ResolveOptions_IgnoreNewTrace(parentSpan, opts) ==
    IF ~parentSpan.isNil
      THEN [opts EXCEPT
              !.TraceID = IF @ = <<>> THEN parentSpan.TraceID ELSE @,
              !.ParentSpanID = IF @ = <<>> THEN parentSpan.SpanID ELSE @,
              !.Baggage = IF @.isNil THEN [isNil |-> FALSE, items |-> parentSpan.Baggage]
                          ELSE @]
      ELSE opts

\* Provider.StartSpan, step 1: the options left empty are filled from the
\* span of the context unless StartNewTrace is set.
ResolveOptions(parentSpan, opts) ==
    IF ~parentSpan.isNil /\ ~opts.StartNewTrace
      THEN [opts EXCEPT
              !.TraceID = IF @ = <<>> THEN parentSpan.TraceID ELSE @,
              !.ParentSpanID = IF @ = <<>> THEN parentSpan.SpanID ELSE @,
              !.Baggage = IF @.isNil THEN [isNil |-> FALSE, items |-> parentSpan.Baggage]
                          ELSE @]
      ELSE opts

\* Provider.StartSpan
ProviderStartSpan(parentSpan, opts, now) ==
    /\ started.pc = "idle"
    /\ started' = [started EXCEPT !.pc = "started", !.opts = opts, !.parent = parentSpan,
                                  !.span = startSpan(ResolveOptions(parentSpan, opts), now)]
    /\ UNCHANGED <<pipelineVars, fieldVars, cacheVars, retry, header, transfer, gor, large, pending, spanCall, stream>>

DoProviderStartSpan ==
    \E parentSpan \in ContextSpans, traceID \in OptionTraceIDs,
       parentSpanID \in OptionParentSpanIDs, baggage \in OptionBaggages,
       startNewTrace \in BOOLEAN, startTime \in OptionStartTimes, now \in StartNows :
        ProviderStartSpan(parentSpan,
                          [TraceID |-> traceID, ParentSpanID |-> parentSpanID,
                           Baggage |-> baggage, StartNewTrace |-> startNewTrace,
                           StartTime |-> startTime],
                          now)

\* toHeaderParent: "%02x-%s-%s-%02x" of version 0, the ids and flags 0.
toHeaderParent(s) == <<"0", "0", "-">> \o s.TraceID \o <<"-">> \o s.SpanID \o <<"-", "0", "0">>

\* util.MapToStringString with the keys visited in the given order:
\* "k1=v1,k2=v2".
MapToStringString(m, keys) ==
    Join([i \in DOMAIN keys |-> keys[i] \o <<"=">> \o m[keys[i]]], ",")

\* The orders in which a range over the map may visit its keys.
KeyOrders(m) ==
    {keys \in [1 .. Cardinality(DOMAIN m) -> DOMAIN m] :
        \A i, j \in DOMAIN keys : i # j => keys[i] # keys[j]}

\* toHeaderBaggage
toHeaderBaggage(s, keys) == IF DOMAIN s.Baggage = {} THEN <<>> ELSE MapToStringString(s.Baggage, keys)

\* Span.ToHeader on the span StartSpan returned.
ToHeader ==
    /\ started.pc = "started"
    /\ \E keys \in KeyOrders(started.span.Baggage) :
         started' = [started EXCEPT !.pc = "emitted",
                                    !.header = [parent |-> toHeaderParent(started.span),
                                                baggage |-> toHeaderBaggage(started.span, keys)]]
    /\ UNCHANGED <<pipelineVars, fieldVars, cacheVars, retry, header, transfer, gor, large, pending, spanCall, stream>>

\* util.IsValidHexStr
IsValidHexStr(str) == \A i \in DOMAIN str : str[i] \in HexDigits

\* fromHeaderParent: four parts; the trace id and the span id of the full
\* length, not all zero, hexadecimal.
fromHeaderParent(h) ==
    LET splits == Split(h, "-")
        bad == [err |-> TRUE, traceID |-> <<>>, spanID |-> <<>>]
    IN  IF Len(splits) # 4 THEN bad
        ELSE IF Len(splits[2]) # TraceIDLen \/ splits[2] = Repeat("0", TraceIDLen) THEN bad
        ELSE IF ~IsValidHexStr(splits[2]) THEN bad
        ELSE IF Len(splits[3]) # SpanIDLen \/ splits[3] = Repeat("0", SpanIDLen) THEN bad
        ELSE IF ~IsValidHexStr(splits[3]) THEN bad
        ELSE [err |-> FALSE, traceID |-> splits[2], spanID |-> splits[3]]

\* FromHeader on a map that holds both headers.
FromHeader(h) ==
    LET p == fromHeaderParent(h.parent)
    IN  [TraceID |-> IF p.err THEN <<>> ELSE p.traceID,
         SpanID |-> IF p.err THEN <<>> ELSE p.spanID,
         Baggage |-> fromHeaderBaggage(h.baggage)]

\* FromHeader on the headers ToHeader emitted.
ParseHeaders ==
    /\ started.pc = "emitted"
    /\ started' = [started EXCEPT !.pc = "parsed", !.ctx = FromHeader(started.header)]
    /\ UNCHANGED <<pipelineVars, fieldVars, cacheVars, retry, header, transfer, gor, large, pending, spanCall, stream>>

\* setStatInfo: time.Now().UnixNano()/1000 - StartTime.UnixNano()/1000
Duration(now, startTime) == now \div 1000 - startTime \div 1000

\* Span.Finish on the span StartSpan returned, at wall-clock time now.
FinishStarted(now) ==
    /\ started.pc # "idle"
    /\ ~started.finished
    /\ started' = [started EXCEPT !.finished = TRUE, !.finishTime = now,
                                  !.span.Duration = Duration(now, started.span.StartTime)]
    /\ UNCHANGED <<pipelineVars, fieldVars, cacheVars, retry, header, transfer, gor, large, pending, spanCall, stream>>

DoFinishStarted == \E now \in FinishNows : FinishStarted(now)

\* ----------------------------------------------------------------------
\* Baggage of a started span: the owner's SetBaggage, children, inbound headers
\* ----------------------------------------------------------------------
\* What url.QueryEscape writes for one character.
EscapeChar(ch) ==
    CASE ch = " " -> <<"+">>
      [] ch = "," -> <<"%", "2", "C">>
      [] ch = "=" -> <<"%", "3", "D">>
      [] ch = "%" -> <<"%", "2", "5">>
      [] ch = "+" -> <<"%", "2", "B">>
      [] OTHER -> <<ch>>

\* url.QueryEscape over characters.
RECURSIVE QueryEscapeChars(_)
QueryEscapeChars(str) ==
    IF str = <<>> THEN <<>> ELSE EscapeChar(str[1]) \o QueryEscapeChars(Tail(str))

\* The keys and values an owner passes to SetBaggage.
OwnerBaggageKeys == {<<"k">>, <<"k", " ", "w">>, <<"k", ",">>, <<"a", "=">>, <<"%">>}
OwnerBaggageValues == {<<"v">>, <<"v", ",", "w">>}

\* Span.setBaggage with escape true and one item: an item that is not valid
\* is logged and left out, a valid one is stored escaped by SetBaggageItem.
setBaggageEscaped(baggage, key, value) ==
    IF ~isValidBaggageChars(key, value) THEN baggage
    ELSE Put(baggage, QueryEscapeChars(key), QueryEscapeChars(value))

\* Span.SetBaggage by the owner of the started span. The tag that SetTags
\* stores for the item is a field of the span that this record does not hold.
SetBaggageStarted(key, value) ==
    /\ started.pc = "started"
    /\ started' = [started EXCEPT !.span.Baggage = setBaggageEscaped(@, key, value)]
    /\ UNCHANGED <<pipelineVars, fieldVars, cacheVars, retry, header, transfer, gor, large, pending, spanCall, stream>>

DoSetBaggageStarted ==
    \E key \in OwnerBaggageKeys, value \in OwnerBaggageValues : SetBaggageStarted(key, value)

\* The baggage headers of inbound requests: keys that hold an escaped
\* delimiter, and plain keys.
InboundBaggageHeaders ==
    {<<"a", "=", "1">>,
     <<"k", "%", "2", "C", "=", "v", ",", "a", "=", "1">>,
     <<"k", "%", "3", "D", "=", "v">>}

\* The baggage option of a StartSpan call that follows FromHeader: none, or
\* the baggage decoded from an inbound header.
DecodedBaggages ==
    {[isNil |-> TRUE, items |-> NoBaggage]} \cup
    {[isNil |-> FALSE, items |-> fromHeaderBaggage(h)] : h \in InboundBaggageHeaders}

\* Provider.StartSpan with a context that carries the started span: the new
\* span takes the place of the started one.
ChildStartSpan(opts, now) ==
    /\ started.pc = "started"
    /\ LET parentSpan == [isNil |-> FALSE, TraceID |-> started.span.TraceID,
                          SpanID |-> started.span.SpanID, Baggage |-> started.span.Baggage]
       IN  started' = [started EXCEPT !.opts = opts, !.parent = parentSpan,
                                      !.span = startSpan(ResolveOptions(parentSpan, opts), now)]
    /\ UNCHANGED <<pipelineVars, fieldVars, cacheVars, retry, header, transfer, gor, large, pending, spanCall, stream>>

DoChildStartSpan ==
    \E baggage \in DecodedBaggages, startNewTrace \in BOOLEAN, now \in StartNows :
        ChildStartSpan([TraceID |-> <<>>, ParentSpanID |-> <<>>, Baggage |-> baggage,
                        StartNewTrace |-> startNewTrace, StartTime |-> 0],
                       now)

\* ----------------------------------------------------------------------
\* Stream reader: SSEDecoder.Decode, BaseStreamReader.Recv and Close
\* ----------------------------------------------------------------------
\* The events of a response: one the parser turns into a result, one it
\* cannot parse, one it reports as an error event.
EventKinds == {"data", "unparsable", "errorEvent"}

\* UNION of the sequences over S of each length up to n.
SeqsUpTo(S, n) == UNION {[1 .. k -> S] : k \in 0 .. n}

\* The capacity of the channel Decode makes: make(chan SSEEvent, 1).
EventsCapacity == 1

\* NewBaseStreamReader on a response: the decoder is made and its goroutine
\* started. The body ends with EOF or with a read error.
NewStream(response, tail) ==
    [NoStream EXCEPT !.pc = "decode", !.response = response, !.tail = tail]

\* BaseStreamReader.Close: closed is set and the response body is closed.
CloseReader(r) == [r EXCEPT !.closed = TRUE, !.body = "closed"]

\* The decoder goroutine at DecodeEvent. While the body is open the scanner
\* gives the next event, or at the end of the body EOF (the goroutine
\* returns and the deferred close(ch) runs) or the read error. Once the body
\* is closed the scanner gives what it has buffered, event by event, or the
\* error of reading a closed body.
DecodeEvent ==
    /\ stream.pc = "decode"
    /\ \/ /\ stream.response # <<>>
          /\ stream' = [stream EXCEPT !.pc = "send", !.item = Head(stream.response),
                                      !.response = Tail(stream.response)]
       \/ /\ stream.response = <<>> /\ stream.body = "open" /\ stream.tail = "eof"
          /\ stream' = [stream EXCEPT !.pc = "done", !.eventsClosed = TRUE]
       \/ /\ \/ stream.response = <<>> /\ stream.body = "open" /\ stream.tail = "err"
             \/ stream.body = "closed"
          /\ stream' = [stream EXCEPT !.pc = "send", !.item = "Error"]
    /\ UNCHANGED <<pipelineVars, fieldVars, cacheVars>>
    /\ UNCHANGED <<retry, header, transfer, gor, started, large, pending, spanCall>>

\* The decoder goroutine at `ch <- ...`: the send goes through when the
\* channel has room, and blocks otherwise. After sending an error the
\* goroutine returns and the deferred close(ch) runs.
SendEvent ==
    /\ stream.pc = "send"
    /\ Len(stream.events) < EventsCapacity
    /\ stream' = [stream EXCEPT !.events = Append(@, stream.item),
                                !.item = "none",
                                !.pc = IF stream.item = "Error" THEN "done" ELSE "decode",
                                !.eventsClosed = (stream.item = "Error")]
    /\ UNCHANGED <<pipelineVars, fieldVars, cacheVars>>
    /\ UNCHANGED <<retry, header, transfer, gor, started, large, pending, spanCall>>

\* The context of the reader is cancelled.
CancelContext ==
    /\ stream.pc # "idle"
    /\ ~stream.ctxDone
    /\ stream' = [stream EXCEPT !.ctxDone = TRUE]
    /\ UNCHANGED <<pipelineVars, fieldVars, cacheVars>>
    /\ UNCHANGED <<retry, header, transfer, gor, started, large, pending, spanCall>>

\* One round of the select in Recv on an open reader: the context is done
\* (Close), or an item is received: the error of the decoder and an error
\* event close the reader, an event that cannot be parsed is passed over, a
\* result is returned; a closed and empty channel closes the reader. A
\* closed reader returns at once.
Recv ==
    /\ stream.pc # "idle"
    /\ ~stream.closed
    /\ \/ /\ stream.ctxDone
          /\ stream' = CloseReader(stream)
       \/ /\ stream.events # <<>>
          /\ stream' = IF Head(stream.events) \in {"Error", "errorEvent"}
                         THEN CloseReader([stream EXCEPT !.events = Tail(@)])
                         ELSE [stream EXCEPT !.events = Tail(@)]
       \/ /\ stream.events = <<>> /\ stream.eventsClosed
          /\ stream' = CloseReader(stream)
    /\ UNCHANGED <<pipelineVars, fieldVars, cacheVars>>
    /\ UNCHANGED <<retry, header, transfer, gor, started, large, pending, spanCall>>

\* BaseStreamReader.Close called by the user of the reader.
CloseStream ==
    /\ stream.pc # "idle"
    /\ ~stream.closed
    /\ stream' = CloseReader(stream)
    /\ UNCHANGED <<pipelineVars, fieldVars, cacheVars>>
    /\ UNCHANGED <<retry, header, transfer, gor, started, large, pending, spanCall>>

\* ----------------------------------------------------------------------
\* Large text: transferText and the way of its file through the queues
\* ----------------------------------------------------------------------
\* util.TruncateStringByChar, on a text of one-byte characters.
TruncateStringByChar(v, limit) ==
    IF v.bytes > limit THEN [v EXCEPT !.bytes = limit] ELSE v

\* The file holds the cut text instead of the whole text.
transferText_CutFile(src, o, tagKey) ==
    IF src.bytes = 0 THEN [value |-> src, file |-> NoFile]
    ELSE IF ~o.ultraLargeReport THEN [value |-> src, file |-> NoFile]
    ELSE IF src.bytes > MaxIOBytes
      THEN [value |-> TruncateStringByChar(src, TextTruncateCharLength),
            file |-> [isNil |-> FALSE,
                      TosKey |-> <<"trace", "span", tagKey, "text", "large_text">>,
                      Data |-> TruncateStringByChar(src, TextTruncateCharLength),
                      UploadType |-> "long", TagKey |-> tagKey]]
      ELSE [value |-> src, file |-> NoFile]

\* transferText: with ultra_large_report, a text over
\* consts.MaxBytesOfOneTagValueOfInputOutput gives a file that holds the
\* whole text under the key "{trace}_{span}_{key}_text_large_text", and the
\* value is cut to consts.TextTruncateCharLength characters.
transferText(src, o, tagKey) ==
    IF src.bytes = 0 THEN [value |-> src, file |-> NoFile]
    ELSE IF ~o.ultraLargeReport THEN [value |-> src, file |-> NoFile]
    ELSE IF src.bytes > MaxIOBytes
      THEN [value |-> TruncateStringByChar(src, TextTruncateCharLength),
            file |-> [isNil |-> FALSE,
                      TosKey |-> <<"trace", "span", tagKey, "text", "large_text">>,
                      Data |-> src, UploadType |-> "long", TagKey |-> tagKey]]
      ELSE [value |-> src, file |-> NoFile]

\* convertInput on a span whose input is plain text: the value of the
\* upload span's input field and the file, if any.
convertInput(o) ==
    IF "input" \notin DOMAIN o.TagMap
      THEN [value |-> NoFile.Data, file |-> NoFile]
      ELSE transferText(o.TagMap["input"], o, "input")

\* SetInput with a plain text.
DoSetTextInput == \E value \in TagValues : Mutate(SetInput(obj, FALSE, value))

\* The export function of span queue q on the batch that holds the owner's
\* finished span: the span is converted and posted; on success its file is
\* enqueued into the file queue, on failure the span goes to span_retry, or
\* is dropped when q is span_retry. A queue that is full (fits is FALSE)
\* drops what is enqueued.
LargeExportSpans(q, postOK, fits) ==
    /\ obj.isFinished = 1 /\ ~obj.panicked
    /\ large.pc = q
    /\ q \in SpanQs
    /\ LET r == convertInput(obj)
       IN  large' =
             IF postOK
               THEN [large EXCEPT !.pc = IF r.file.isNil THEN "done"
                                         ELSE IF ~fits THEN "dropped"
                                         ELSE FileQueue(q),
                                  !.src = IF "input" \in DOMAIN obj.TagMap
                                            THEN obj.TagMap["input"] ELSE NoFile.Data,
                                  !.input = r.value, !.file = r.file]
               ELSE [large EXCEPT !.pc = IF SpanRetryQueue(q) = "nil" \/ ~fits THEN "dropped"
                                         ELSE SpanRetryQueue(q)]
    /\ UNCHANGED <<pipelineVars, fieldVars, cacheVars, retry, header, transfer, gor, started, pending, spanCall, stream>>

\* The export function of file queue q on the batch that holds the file:
\* one upload request; on failure the file goes to file_retry, or is dropped
\* when q is file_retry or file_retry is full.
LargeExportFiles(q, uploadOK, fits) ==
    /\ large.pc = q
    /\ q \in FileQs
    /\ large' = [large EXCEPT
                   !.requests = Append(@, [queue |-> q, TosKey |-> large.file.TosKey,
                                           Data |-> large.file.Data, ok |-> uploadOK]),
                   !.pc = IF uploadOK THEN "done"
                          ELSE IF FileRetryQueue(q) = "nil" \/ ~fits THEN "dropped"
                          ELSE FileRetryQueue(q)]
    /\ UNCHANGED <<pipelineVars, fieldVars, cacheVars, retry, header, transfer, gor, started, pending, spanCall, stream>>

DoLargeExportSpans ==
    \E q \in SpanQs, postOK \in BOOLEAN, fits \in BOOLEAN : LargeExportSpans(q, postOK, fits)
DoLargeExportFiles ==
    \E q \in FileQs, uploadOK \in BOOLEAN, fits \in BOOLEAN : LargeExportFiles(q, uploadOK, fits)

\* ----------------------------------------------------------------------
\* transferToUploadSpanAndFile
\* ----------------------------------------------------------------------
\* What a span holds under input or output, as its converter sees it:
\*   "none"   no tag under the key
\*   "text"   a text that gives no file
\*   "large"  a text over the limit on a span with ultra_large_report: one file
\*   "parts"  a multimodal value with one image or file part: one file
\*   "broken" a multimodal key whose tag is not the JSON of a model input
Payloads == {"none", "text", "large", "parts", "broken"}

\* The two orders in which the range over tagValueConverterMap visits its keys.
ConverterOrders == {<<"input", "output">>, <<"output", "input">>}

\* An upload file of span i extracted from key; a nil entry has isNil.
File(i, key, isNil) == [of |-> i, key |-> key, isNil |-> isNil]

\* convertInput, convertOutput: the files of one key and whether json.Unmarshal
\* failed. convertOutput appends the result of transferText without testing
\* it for nil.
convertFunc(i, key, payload) ==
    CASE payload = "broken" -> [err |-> TRUE, files |-> <<>>]
      [] payload = "text" ->
           [err |-> FALSE,
            files |-> IF key = "output" THEN <<File(i, key, TRUE)>> ELSE <<>>]
      [] payload \in {"large", "parts"} -> [err |-> FALSE, files |-> <<File(i, key, FALSE)>>]
      [] OTHER -> [err |-> FALSE, files |-> <<>>]

\* A conversion whose error returns the files gathered so far.
parseKeys_KeepFiles(i, span, order, k, files) ==
    LET RECURSIVE go(_, _)
        go(j, fs) ==
            IF j > Len(order) THEN [err |-> FALSE, files |-> fs]
            ELSE IF span[order[j]] = "none" THEN go(j + 1, fs)
            ELSE LET r == convertFunc(i, order[j], span[order[j]])
                 IN  IF r.err THEN [err |-> FALSE, files |-> fs]
                     ELSE go(j + 1, fs \o r.files)
    IN  go(k, files)

\* parseInputOutput from key k of the order on: a key with no tag is passed
\* over; an error of the converter returns nil, nil and the error.
parseKeys(i, span, order, k, files) ==
    LET RECURSIVE go(_, _)
        go(j, fs) ==
            IF j > Len(order) THEN [err |-> FALSE, files |-> fs]
            ELSE IF span[order[j]] = "none" THEN go(j + 1, fs)
            ELSE LET r == convertFunc(i, order[j], span[order[j]])
                 IN  IF r.err THEN [err |-> TRUE, files |-> <<>>]
                     ELSE go(j + 1, fs \o r.files)
    IN  go(k, files)

parseInputOutput(i, span, order) == parseKeys(i, span, order, 1, <<>>)

\* transferToUploadSpanAndFile from span i of the batch on; orders[i] is the
\* order in which the keys of span i are visited. transferObjectStorage
\* returns no error.
RECURSIVE transferFrom(_, _, _, _, _)
transferFrom(spans, orders, i, resSpan, resFile) ==
    IF i > Len(spans) THEN [resSpan |-> resSpan, resFile |-> resFile]
    ELSE LET r == parseInputOutput(i, spans[i], orders[i])
         IN  IF r.err THEN transferFrom(spans, orders, i + 1, resSpan, resFile)
             ELSE transferFrom(spans, orders, i + 1, Append(resSpan, i), resFile \o r.files)

transferToUploadSpanAndFile(spans, orders) == transferFrom(spans, orders, 1, <<>>, <<>>)

\* The export function of a span queue converts the batch it was handed.
Transfer ==
    /\ transfer.pc = "handed"
    /\ \E orders \in [DOMAIN transfer.spans -> ConverterOrders] :
         LET r == transferToUploadSpanAndFile(transfer.spans, orders)
         IN  transfer' = [transfer EXCEPT !.pc = "converted", !.resSpan = r.resSpan,
                                          !.resFile = r.resFile]
    /\ UNCHANGED <<pipelineVars, fieldVars, cacheVars, retry, header, gor, started, large, pending, spanCall, stream>>

\* ----------------------------------------------------------------------
\* The per-span lock
\* ----------------------------------------------------------------------
\* The fields of a span the lock is meant to guard.
GuardedFields == {"TagMap", "SystemTagMap", "Baggage", "StatusCode", "Duration", "bytesSize"}

Lock == [kind |-> "lock", field |-> "lock"]
Unlock == [kind |-> "unlock", field |-> "lock"]
Read(field) == [kind |-> "read", field |-> field]
Write(field) == [kind |-> "write", field |-> field]

\* Span.SetTags with an over-long value under the key error: addDefaultTag,
\* the byte size, setCutOffTag and setTagItem between Lock and Unlock.
SetTagsSteps ==
    <<Lock, Read("StatusCode"), Write("StatusCode"), Write("bytesSize"),
      Write("SystemTagMap"), Read("TagMap"), Write("TagMap"), Unlock>>

\* Span.SetBaggageItem
SetBaggageItemSteps == <<Lock, Write("Baggage"), Unlock>>

\* Span.setBaggage with one valid item: SetTags, then SetBaggageItem.
SetBaggageSteps == SetTagsSteps \o SetBaggageItemSteps

\* setSystemTag: the nil test and the lookup of runtime come before Lock.
setSystemTagSteps == <<Read("SystemTagMap"), Lock, Write("SystemTagMap"), Unlock>>

\* setStatInfo on a span without token tags: GetTagMap and the lookups in the
\* map it returns take no lock; the duration is stored between Lock and Unlock.
setStatInfoSteps == <<Read("TagMap"), Lock, Write("Duration"), Unlock>>

\* Span.Finish that won the CAS: setSystemTag, setStatInfo, then OnSpanEnd,
\* which reads s.bytesSize for Enqueue.
FinishSteps == setSystemTagSteps \o setStatInfoSteps \o <<Read("bytesSize")>>

\* Provider.StartSpan of a child: parentSpan.GetBaggage() and the range over
\* the map it returns in setBaggage.
StartSpanSteps == <<Read("Baggage")>>

\* transferToUploadSpanAndFile on the span: GetTagMap in parseInputOutput,
\* parseTag of both maps, GetDuration, GetStatusCode.
ExportSteps == <<Read("TagMap"), Read("SystemTagMap"), Read("Duration"), Read("StatusCode")>>

Steps(op) ==
    CASE op = "SetTags" -> SetTagsSteps
      [] op = "SetBaggage" -> SetBaggageSteps
      [] op = "Finish" -> FinishSteps
      [] op = "StartSpan" -> StartSpanSteps
      [] op = "Export" -> ExportSteps
      [] OTHER -> <<>>

\* The call of goroutine g has returned.
Returned(g) == gor.pc[g] > Len(Steps(gor.op[g]))

\* The step goroutine g takes next.
NextStep(g) == Steps(gor.op[g])[gor.pc[g]]

\* The exporter is handed the span by OnSpanEnd, at the end of Finish.
MayRun(g) == gor.op[g] = "Export" => Returned("finisher")

Advance(g, lock) ==
    /\ gor' = [gor EXCEPT !.pc[g] = @ + 1, !.lock = lock]
    /\ UNCHANGED <<pipelineVars, fieldVars, cacheVars, retry, header, transfer, started, large, pending, spanCall, stream>>

\* s.lock.Lock()
LockStep(g) ==
    /\ ~Returned(g) /\ MayRun(g)
    /\ NextStep(g).kind = "lock"
    /\ gor.lock = "free"
    /\ Advance(g, g)

\* s.lock.Unlock()
UnlockStep(g) ==
    /\ ~Returned(g) /\ MayRun(g)
    /\ NextStep(g).kind = "unlock"
    /\ Advance(g, "free")

\* One read or write of a field.
AccessStep(g) ==
    /\ ~Returned(g) /\ MayRun(g)
    /\ NextStep(g).kind \in {"read", "write"}
    /\ Advance(g, gor.lock)

DoLockStep == \E g \in Goroutines : LockStep(g)
DoUnlockStep == \E g \in Goroutines : UnlockStep(g)
DoAccessStep == \E g \in Goroutines : AccessStep(g)

\* ----------------------------------------------------------------------
\* Backoff.Retry of the HTTP client
\* ----------------------------------------------------------------------
\* What a call of f returns: nil, an AuthError, a RemoteServiceError with
\* its http code, a transport error, or any other error.
Results == {"nil", "AuthError", "Remote400", "Remote500", "transport", "generic"}

\* Mutant: a RemoteServiceError is retried whatever its http code.
shouldRetry_AnyRemote(err) == err \in {"Remote400", "Remote500", "transport", "generic"}

\* The retry classification: nil, an AuthError and a RemoteServiceError with
\* http code below 500 end the loop, every other error is retried.
shouldRetry(err) == err \in {"Remote500", "transport", "generic"}

\* One round of the loop of Retry: f is called; the loop ends when the
\* result is not to be retried or f has been called retryTimes times, and
\* Retry returns the error of that call.
RetryCall(res) ==
    /\ retry.pc = "loop"
    /\ retry' = [retry EXCEPT
                    !.results = Append(@, res),
                    !.err = res,
                    !.pc = IF ~shouldRetry(res) \/ Len(retry.results) + 1 >= retry.retryTimes
                             THEN "returned" ELSE "loop"]
    /\ UNCHANGED <<pipelineVars, fieldVars, cacheVars, header, transfer, gor, started, large, pending, spanCall, stream>>

DoRetryCall == \E res \in Results : RetryCall(res)

\* ----------------------------------------------------------------------
\* Span.Finish and BatchSpanProcessor.OnSpanEnd
\* ----------------------------------------------------------------------
\* Mutant: the flag is written without being tested, every call goes on.
isDoFinish_NoTest(s) == spanSt[s] \in {"live", "fin"}

\* atomic.CompareAndSwapInt32(&s.isFinished, spanUnFinished, spanFinished)
isDoFinish(s) == spanSt[s] = "live"

\* OnSpanEnd: nothing once the processor is stopped, else Enqueue on the span queue.
OnSpanEnd(s) ==
    /\ onSpanEnd' = [onSpanEnd EXCEPT ![s] = @ + 1]
    /\ queue' = IF procStopped THEN queue
                ELSE [queue EXCEPT !["span"] = @ \o Accepted("span", <<s>>)]
    /\ closeDirty' = (closeDirty \/ closePc # "idle")
    /\ flushDirty' = (flushDirty \/ flushPc # "idle")

\* loopClient.StartSpan -> Provider.StartSpan: a fresh unfinished span, or the
\* no-op span when the client is closed.
StartSpan(s) ==
    /\ spanSt[s] = "none"
    /\ IF loopClientCall("StartSpan", closed) = "provider"
         THEN /\ spanSt' = [spanSt EXCEPT ![s] = "live"]
              /\ UNCHANGED postCloseCall
         ELSE /\ postCloseCall' = [op |-> "StartSpan",
                                   res |-> loopClientCall("StartSpan", closed)]
              /\ UNCHANGED spanSt
    /\ UNCHANGED <<kind, finishing, finishCalls, onSpanEnd, queueVars, clientVars, histVars>>
    /\ UNCHANGED fieldVars
    /\ UNCHANGED cacheVars
    /\ UNCHANGED callVars

\* One call of Span.Finish up to and including the compare-and-swap. The
\* winner goes on to FinishDeliver, every other call returns at once.
FinishCAS(s) ==
    /\ spanSt[s] \in {"live", "fin"}
    /\ finishCalls[s] < MaxFinishCalls
    /\ finishCalls' = [finishCalls EXCEPT ![s] = @ + 1]
    /\ IF isDoFinish(s)
         THEN /\ spanSt' = [spanSt EXCEPT ![s] = "fin"]
              /\ finishing' = finishing \cup {s}
         ELSE UNCHANGED <<spanSt, finishing>>
    /\ UNCHANGED <<kind, onSpanEnd, queueVars, clientVars, histVars, postCloseCall>>
    /\ UNCHANGED fieldVars
    /\ UNCHANGED cacheVars
    /\ UNCHANGED callVars

\* The rest of the winning Finish: setSystemTag, setStatInfo, OnSpanEnd. k is
\* the payload the span carries when it is exported.
FinishDeliver(s, k) ==
    /\ s \in finishing
    /\ finishing' = finishing \ {s}
    /\ kind' = [kind EXCEPT ![s] = k]
    /\ OnSpanEnd(s)
    /\ UNCHANGED <<spanSt, finishCalls, inflight, stopped, procStopped, closed, closePc,
                   closeErr, flushPc, histVars, postCloseCall>>
    /\ UNCHANGED fieldVars
    /\ UNCHANGED cacheVars
    /\ UNCHANGED callVars

\* A whole Finish call on an unfinished span, run without interruption.
\* Spans are numbered in the order in which they are finished.
Finish(s, k) ==
    /\ spanSt[s] = "live"
    /\ \A r \in Spans : r < s => spanSt[r] # "live"
    /\ isDoFinish(s)
    /\ spanSt' = [spanSt EXCEPT ![s] = "fin"]
    /\ finishCalls' = [finishCalls EXCEPT ![s] = @ + 1]
    /\ kind' = [kind EXCEPT ![s] = k]
    /\ OnSpanEnd(s)
    /\ UNCHANGED <<finishing, inflight, stopped, procStopped, closed, closePc,
                   closeErr, flushPc, histVars, postCloseCall>>
    /\ UNCHANGED fieldVars
    /\ UNCHANGED cacheVars
    /\ UNCHANGED callVars

\* ----------------------------------------------------------------------
\* Queue workers and the export functions
\* ----------------------------------------------------------------------
\* Mutant: the worker takes its batch from the tail of the queue.
BeginExport_FromTail(q) ==
    /\ inflight[q] = <<>>
    /\ queue[q] # <<>>
    /\ \E k \in 1 .. Min(Len(queue[q]), MaxExportBatchLength(q)) :
         /\ inflight' = [inflight EXCEPT
                            ![q] = SubSeq(queue[q], Len(queue[q]) - k + 1, Len(queue[q]))]
         /\ queue' = [queue EXCEPT ![q] = SubSeq(queue[q], 1, Len(queue[q]) - k)]
    /\ UNCHANGED <<spanVars, stopped, procStopped, clientVars, histVars, postCloseCall>>
    /\ UNCHANGED fieldVars
    /\ UNCHANGED cacheVars
    /\ UNCHANGED callVars

\* The worker of q releases a batch: at most maxExportBatchLength items from
\* the head of the queue (the timer may fire before the batch is full).
BeginExport(q) ==
    /\ inflight[q] = <<>>
    /\ queue[q] # <<>>
    /\ \E k \in 1 .. Min(Len(queue[q]), MaxExportBatchLength(q)) :
         /\ inflight' = [inflight EXCEPT ![q] = SubSeq(queue[q], 1, k)]
         /\ queue' = [queue EXCEPT ![q] = SubSeq(queue[q], k + 1, Len(queue[q]))]
    /\ UNCHANGED <<spanVars, stopped, procStopped, clientVars, histVars, postCloseCall>>
    /\ UNCHANGED fieldVars
    /\ UNCHANGED cacheVars
    /\ UNCHANGED callVars

\* transferToUploadSpanAndFile: a span whose extraction fails is skipped; the
\* others give one UploadSpan each and their files, nil entries included.
UploadSpans(batch) == SelectSeq(batch, LAMBDA s : kind[s] # "bad")
UploadFiles(batch) ==
    [i \in 1 .. Len(UploadSpans(batch)) |->
        [of |-> UploadSpans(batch)[i], isNil |-> kind[UploadSpans(batch)[i]] # "file"]]

\* The files of a list that are not nil, each named by its span.
NonNil(uploadFiles) ==
    LET fs == SelectSeq(uploadFiles, LAMBDA f : ~f.isNil)
    IN  [i \in 1 .. Len(fs) |-> fs[i].of]

\* SpanExporter.ExportSpans: no request for an empty list, else the POST's outcome.
ExportSpansErr(ss, postOK) == ss # <<>> /\ ~postOK

\* Mutant: the spans go to the retry queue whether or not the POST failed.
newExportSpansFunc_AlwaysRetry(q, spans, uploadFiles, err) ==
    [toRetry |-> IF SpanRetryQueue(q) # "nil" THEN spans ELSE <<>>,
     toFile  |-> IF ~err /\ FileQueue(q) # "nil" THEN NonNil(uploadFiles) ELSE <<>>]

\* Mutant: the files go to the file queue whether or not the POST failed.
newExportSpansFunc_AlwaysFile(q, spans, uploadFiles, err) ==
    [toRetry |-> IF err /\ SpanRetryQueue(q) # "nil" THEN spans ELSE <<>>,
     toFile  |-> IF FileQueue(q) # "nil" THEN NonNil(uploadFiles) ELSE <<>>]

\* Mutant: every entry of the file list is enqueued, nil entries included.
newExportSpansFunc_KeepNil(q, spans, uploadFiles, err) ==
    [toRetry |-> IF err /\ SpanRetryQueue(q) # "nil" THEN spans ELSE <<>>,
     toFile  |-> IF ~err /\ FileQueue(q) # "nil"
                   THEN [i \in DOMAIN uploadFiles |-> uploadFiles[i].of] ELSE <<>>]

\* newExportSpansFunc: what the export function of span queue q enqueues.
newExportSpansFunc(q, spans, uploadFiles, err) ==
    [toRetry |-> IF err /\ SpanRetryQueue(q) # "nil" THEN spans ELSE <<>>,
     toFile  |-> IF ~err /\ FileQueue(q) # "nil"
                   THEN NonNil(uploadFiles) ELSE <<>>]

\* newExportFilesFunc: what the export function of file queue q enqueues.
newExportFilesFunc(q, files, err) ==
    IF err /\ FileRetryQueue(q) # "nil" THEN files ELSE <<>>

AcceptedBy(t, xs) == IF t = "nil" \/ xs = <<>> THEN <<>> ELSE Accepted(t, xs)
Late(t, xs) == t # "nil" /\ xs # <<>> /\ stopped[t]

EndExportSpans(q) ==
    /\ q \in SpanQs
    /\ inflight[q] # <<>>
    /\ \E postOK \in BOOLEAN :
        LET batch == inflight[q]
            ss == UploadSpans(batch)
            err == ExportSpansErr(ss, postOK)
            out == newExportSpansFunc(q, batch, UploadFiles(batch), err)
            accR == AcceptedBy(SpanRetryQueue(q), out.toRetry)
            accF == AcceptedBy(FileQueue(q), out.toFile)
        IN  /\ inflight' = [inflight EXCEPT ![q] = <<>>]
            /\ queue' = [t \in Queues |->
                           queue[t] \o (IF t = SpanRetryQueue(q) THEN accR ELSE <<>>)
                                    \o (IF t = FileQueue(q) THEN accF ELSE <<>>)]
            /\ posts' = [s \in Spans |-> [posts[s] EXCEPT ![q] = @ + Count(ss, s)]]
            /\ ingested' = [s \in Spans |->
                              ingested[s] + (IF err THEN 0 ELSE Count(ss, s))]
            /\ fileAcc' = [s \in Spans |-> fileAcc[s] + Count(accF, s)]
            /\ lateEnqueue' = (lateEnqueue \/ Late(SpanRetryQueue(q), out.toRetry)
                                            \/ Late(FileQueue(q), out.toFile))
    /\ UNCHANGED <<spanVars, stopped, procStopped, clientVars, uploads, uploaded,
                   postCloseCall>>
    /\ UNCHANGED fieldVars
    /\ UNCHANGED cacheVars
    /\ UNCHANGED callVars

\* SpanExporter.ExportFiles uploads the files in order and returns at the first
\* failure: the first n uploads succeed, and the next one, if any, fails.
EndExportFiles(q) ==
    /\ q \in FileQs
    /\ inflight[q] # <<>>
    /\ \E n \in 0 .. Len(inflight[q]) :
        LET batch == inflight[q]
            err == n < Len(batch)
            tried == SubSeq(batch, 1, Min(n + 1, Len(batch)))
            done == SubSeq(batch, 1, n)
            toRetry == newExportFilesFunc(q, batch, err)
            accR == AcceptedBy(FileRetryQueue(q), toRetry)
        IN  /\ inflight' = [inflight EXCEPT ![q] = <<>>]
            /\ queue' = [t \in Queues |->
                           queue[t] \o (IF t = FileRetryQueue(q) THEN accR ELSE <<>>)]
            /\ uploads' = [s \in Spans |-> [uploads[s] EXCEPT ![q] = @ + Count(tried, s)]]
            /\ uploaded' = [s \in Spans |-> uploaded[s] + Count(done, s)]
            /\ lateEnqueue' = (lateEnqueue \/ Late(FileRetryQueue(q), toRetry))
    /\ UNCHANGED <<spanVars, stopped, procStopped, clientVars, posts, ingested,
                   fileAcc, postCloseCall>>
    /\ UNCHANGED fieldVars
    /\ UNCHANGED cacheVars
    /\ UNCHANGED callVars

\* ----------------------------------------------------------------------
\* loopClient.Close -> Provider.CloseTrace -> BatchSpanProcessor.Shutdown
\* ----------------------------------------------------------------------
\* Close on an open client enters Shutdown, which starts with the first queue.
CloseCall ==
    /\ closePc = "idle"
    /\ ~closed
    /\ closePc' = ShutdownOrder[1]
    /\ UNCHANGED <<spanVars, queueVars, closed, closeErr, closeDirty, flushPc,
                   flushDirty, histVars, postCloseCall>>
    /\ UNCHANGED fieldVars
    /\ UNCHANGED cacheVars
    /\ UNCHANGED callVars

\* The Shutdown of the queue at hand returns nil once the queue is drained;
\* the queue then rejects every Enqueue. After the last queue Shutdown sets
\* stopped, returns nil, and Close sets closed.
ShutdownStep ==
    /\ closePc \in Queues
    /\ Drained(closePc)
    /\ stopped' = [stopped EXCEPT ![closePc] = TRUE]
    /\ IF After(ShutdownOrder, closePc) = "end"
         THEN /\ procStopped' = TRUE
              /\ closed' = TRUE
              /\ closePc' = "done"
         ELSE /\ closePc' = After(ShutdownOrder, closePc)
              /\ UNCHANGED <<procStopped, closed>>
    /\ UNCHANGED <<spanVars, queue, inflight, closeErr, closeDirty, flushPc,
                   flushDirty, histVars, postCloseCall>>
    /\ UNCHANGED fieldVars
    /\ UNCHANGED cacheVars
    /\ UNCHANGED callVars

\* The caller's deadline expires while a queue is shutting down: the items
\* still queued are lost, that Shutdown returns the error, BatchSpanProcessor
\* returns it at once (the later queues are not shut down, stopped is not
\* set), CloseTrace drops it and Close sets closed.
ShutdownExpire ==
    /\ closePc \in Queues
    /\ stopped' = [stopped EXCEPT ![closePc] = TRUE]
    /\ queue' = [queue EXCEPT ![closePc] = <<>>]
    /\ closeErr' = TRUE
    /\ closed' = TRUE
    /\ closePc' = "done"
    /\ UNCHANGED <<spanVars, inflight, procStopped, closeDirty, flushPc,
                   flushDirty, histVars, postCloseCall>>
    /\ UNCHANGED fieldVars
    /\ UNCHANGED cacheVars
    /\ UNCHANGED callVars

\* ----------------------------------------------------------------------
\* loopClient.Flush -> Provider.Flush -> BatchSpanProcessor.ForceFlush
\* ----------------------------------------------------------------------
FlushCall ==
    /\ flushPc \in {"idle", "ok", "err"}
    /\ IF loopClientCall("Flush", closed) = "provider"
         THEN /\ flushPc' = ForceFlushOrder[1]
              /\ flushDirty' = FALSE
              /\ UNCHANGED postCloseCall
         ELSE /\ postCloseCall' = [op |-> "Flush", res |-> loopClientCall("Flush", closed)]
              /\ UNCHANGED <<flushPc, flushDirty>>
    /\ UNCHANGED <<spanVars, queueVars, closed, closePc, closeErr, closeDirty,
                   histVars>>
    /\ UNCHANGED fieldVars
    /\ UNCHANGED cacheVars
    /\ UNCHANGED callVars

\* ForceFlush of the queue at hand returns nil once everything queued has been
\* exported, at once on a queue that has been shut down.
FlushStep ==
    /\ flushPc \in Queues
    /\ stopped[flushPc] \/ Drained(flushPc)
    /\ flushPc' = IF After(ForceFlushOrder, flushPc) = "end" THEN "ok"
                  ELSE After(ForceFlushOrder, flushPc)
    /\ UNCHANGED <<spanVars, queueVars, closed, closePc, closeErr, closeDirty,
                   flushDirty, histVars, postCloseCall>>
    /\ UNCHANGED fieldVars
    /\ UNCHANGED cacheVars
    /\ UNCHANGED callVars

\* The caller's deadline expires while ForceFlush waits for a queue: it
\* returns the error. On a queue that has been shut down it does not wait.
FlushExpire ==
    /\ flushPc \in Queues
    /\ ~stopped[flushPc]
    /\ flushPc' = "err"
    /\ UNCHANGED <<spanVars, queueVars, closed, closePc, closeErr, closeDirty,
                   flushDirty, histVars, postCloseCall>>
    /\ UNCHANGED fieldVars
    /\ UNCHANGED cacheVars
    /\ UNCHANGED callVars

\* ----------------------------------------------------------------------
\* The other public methods, called on a closed client
\* ----------------------------------------------------------------------
ClosedCall(op) ==
    /\ op \in ClientOps \ {"StartSpan", "Flush"}
    /\ closed
    /\ postCloseCall' = [op |-> op, res |-> loopClientCall(op, closed)]
    /\ UNCHANGED <<spanVars, queueVars, clientVars, histVars>>
    /\ UNCHANGED fieldVars
    /\ UNCHANGED cacheVars
    /\ UNCHANGED callVars

\* Finish on the no-op span a closed client handed out.
FinishNoop ==
    /\ closed
    /\ postCloseCall.res = "noopSpan"
    /\ postCloseCall' = [op |-> "Finish", res |-> "return"]
    /\ UNCHANGED <<spanVars, queueVars, clientVars, histVars>>
    /\ UNCHANGED fieldVars
    /\ UNCHANGED cacheVars
    /\ UNCHANGED callVars

\* ----------------------------------------------------------------------
\* Specifications
\* ----------------------------------------------------------------------
DoStartSpan == \E s \in Spans : StartSpan(s)
DoFinish == \E s \in Spans, k \in Kinds : Finish(s, k)
DoFinishCAS == \E s \in Spans : FinishCAS(s)
DoFinishDeliver == \E s \in Spans, k \in Kinds : FinishDeliver(s, k)
DoBeginExport == \E q \in Queues : BeginExport(q)
DoEndExportSpans == \E q \in SpanQs : EndExportSpans(q)
DoEndExportFiles == \E q \in FileQs : EndExportFiles(q)
DoClosedCall == \E op \in ClientOps : ClosedCall(op)

\* The pipeline: started spans are finished once each and the four workers
\* export what reaches their queues.
Init == InitWith(NSpans, "live", {NewSpan(FALSE)})

Next ==
    \/ DoFinish
    \/ DoBeginExport
    \/ DoEndExportSpans
    \/ DoEndExportFiles

Spec == Init /\ [][Next]_vars

\* The pipeline with a client that is closed at some point.
\* Close and Flush add the position of the call to every state of the
\* pipeline: they are explored with one span fewer.
InitDrain == InitWith(NSpans - 1, "live", {NewSpan(FALSE)})

NextClose ==
    \/ DoFinish
    \/ DoBeginExport
    \/ DoEndExportSpans
    \/ DoEndExportFiles
    \/ CloseCall
    \/ ShutdownStep
    \/ ShutdownExpire

SpecClose == InitDrain /\ [][NextClose]_vars

\* The pipeline with a client that is flushed now and then.
NextFlush ==
    \/ DoFinish
    \/ DoBeginExport
    \/ DoEndExportSpans
    \/ DoEndExportFiles
    \/ FlushCall
    \/ FlushStep
    \/ FlushExpire

SpecFlush == InitDrain /\ [][NextFlush]_vars

\* Finish called several times on each span, from goroutines that interleave
\* between the compare-and-swap and OnSpanEnd.
NextFinish ==
    \/ DoFinishCAS
    \/ DoFinishDeliver

SpecFinish == Init /\ [][NextFinish]_vars

\* The public methods of a client, before and after Close.
InitClient == InitWith(NClientSpans, "none", {NewSpan(FALSE)})

NextClient ==
    \/ DoStartSpan
    \/ DoFinish
    \/ DoBeginExport
    \/ DoEndExportSpans
    \/ DoEndExportFiles
    \/ CloseCall
    \/ ShutdownStep
    \/ ShutdownExpire
    \/ FlushCall
    \/ FlushStep
    \/ FlushExpire
    \/ DoClosedCall
    \/ FinishNoop

SpecClient == InitClient /\ [][NextClient]_vars

\* One span, its owner calling mutators and Finish in any order.
InitSpan == InitWith(NSpans, "live", {NewSpan(u) : u \in BOOLEAN})

NextSpan ==
    \/ DoSetTags
    \/ DoSetError
    \/ DoSetStatusCode
    \/ DoSetInput
    \/ DoSetOutput
    \/ DoSetBaggage
    \/ FinishSpan

SpecSpan == InitSpan /\ [][NextSpan]_vars

\* The same owner, holding a nil span or a zero-value span.
InitEmptySpan == InitWith(NSpans, "live", {NilSpan, ZeroSpan})

SpecEmptySpan == InitEmptySpan /\ [][NextSpan]_vars

\* One span whose owner sets tags under reserved keys and SDK-owned keys and
\* finishes it.
NextTags ==
    \/ DoSetReservedTags
    \/ DoSetSystemKeyTags
    \/ FinishSpan

SpecTags == Init /\ [][NextTags]_vars

\* The owner sets the error tag and the status code of its span.
NextStatus ==
    \/ DoSetError
    \/ DoSetErrorTags
    \/ DoSetStatusCode
    \/ FinishSpan

SpecStatus == InitSpan /\ [][NextStatus]_vars

\* NewClient and Close calls made one after the other.
NextNewClient ==
    \/ DoNewClient
    \/ DoClose

SpecNewClient == Init /\ [][NextNewClient]_vars

\* Clients made and closed, and StartSpan called on them and on the no-op
\* client.
NextClientStartSpan ==
    \/ DoNewClient
    \/ DoClose
    \/ DoClientStartSpan

SpecClientStartSpan == Init /\ [][NextClientStartSpan]_vars

\* One stream reader over a response of up to MaxEvents events, its decoder
\* goroutine and its user.
InitStream ==
    /\ InitBase(NSpans, "live", {NewSpan(FALSE)})
    /\ retry = [retryTimes |-> 0, results |-> <<>>, pc |-> "idle", err |-> "nil"]
    /\ header = [entries |-> <<>>, text |-> <<>>, pc |-> "idle", baggage |-> NoBaggage]
    /\ transfer = [spans |-> <<>>, pc |-> "idle", resSpan |-> <<>>, resFile |-> <<>>]
    /\ gor = NoGoroutines
    /\ started = NotStarted
    /\ large = NotExported
    /\ pending = NoPending
    /\ spanCall = NoSpanCall
    /\ stream \in {NewStream(response, tail) :
                      response \in SeqsUpTo(EventKinds, MaxEvents), tail \in {"eof", "err"}}

NextStream ==
    \/ DecodeEvent
    \/ SendEvent
    \/ CancelContext
    \/ Recv
    \/ CloseStream

\* The decoder goroutine is scheduled as long as it can take a step; the
\* user of the reader may stop calling it at any time.
SpecStream ==
    InitStream /\ [][NextStream]_vars /\ WF_vars(DecodeEvent) /\ WF_vars(SendEvent)

\* NewClient called by several goroutines at the same time.
NextConcurrentNewClient ==
    \/ DoNewClientLoad
    \/ DoNewClientStore

SpecConcurrentNewClient == Init /\ [][NextConcurrentNewClient]_vars

\* One call of Retry(f, retryTimes), f returning whatever it likes.
InitRetry ==
    /\ InitBase(NSpans, "live", {NewSpan(FALSE)})
    /\ retry \in {[retryTimes |-> n, results |-> <<>>, pc |-> "loop", err |-> "nil"] :
                     n \in 1 .. MaxRetryTimes}
    /\ header = [entries |-> <<>>, text |-> <<>>, pc |-> "idle", baggage |-> NoBaggage]
    /\ transfer = [spans |-> <<>>, pc |-> "idle", resSpan |-> <<>>, resFile |-> <<>>]
    /\ gor = NoGoroutines
    /\ started = NotStarted
    /\ large = NotExported
    /\ pending = NoPending
    /\ spanCall = NoSpanCall
    /\ stream = NoStream

NextRetry == DoRetryCall

SpecRetry == InitRetry /\ [][NextRetry]_vars

\* One inbound baggage header parsed by FromHeader.
InitHeader ==
    /\ InitBase(NSpans, "live", {NewSpan(FALSE)})
    /\ retry = [retryTimes |-> 0, results |-> <<>>, pc |-> "idle", err |-> "nil"]
    /\ transfer = [spans |-> <<>>, pc |-> "idle", resSpan |-> <<>>, resFile |-> <<>>]
    /\ gor = NoGoroutines
    /\ started = NotStarted
    /\ large = NotExported
    /\ pending = NoPending
    /\ spanCall = NoSpanCall
    /\ stream = NoStream
    /\ \E n \in 1 .. MaxEntries : \E es \in [1 .. n -> HeaderEntries] :
          header = [entries |-> es, text |-> Join(es, ","), pc |-> "received",
                    baggage |-> NoBaggage]

NextHeader == ParseBaggageHeader

SpecHeader == InitHeader /\ [][NextHeader]_vars

\* One batch of finished spans converted by the export function.
InitTransfer ==
    /\ InitBase(NSpans, "live", {NewSpan(FALSE)})
    /\ retry = [retryTimes |-> 0, results |-> <<>>, pc |-> "idle", err |-> "nil"]
    /\ header = [entries |-> <<>>, text |-> <<>>, pc |-> "idle", baggage |-> NoBaggage]
    /\ \E n \in 1 .. MaxBatchLen :
         \E spans \in [1 .. n -> [input : Payloads, output : Payloads]] :
            transfer = [spans |-> spans, pc |-> "handed", resSpan |-> <<>>, resFile |-> <<>>]
    /\ gor = NoGoroutines
    /\ started = NotStarted
    /\ large = NotExported
    /\ pending = NoPending
    /\ spanCall = NoSpanCall
    /\ stream = NoStream

NextTransfer == Transfer

SpecTransfer == InitTransfer /\ [][NextTransfer]_vars

\* One span shared by its owner calling a mutator, a goroutine calling
\* Finish, and a child StartSpan or the exporter.
InitLock ==
    /\ InitBase(NSpans, "live", {NewSpan(FALSE)})
    /\ retry = [retryTimes |-> 0, results |-> <<>>, pc |-> "idle", err |-> "nil"]
    /\ header = [entries |-> <<>>, text |-> <<>>, pc |-> "idle", baggage |-> NoBaggage]
    /\ transfer = [spans |-> <<>>, pc |-> "idle", resSpan |-> <<>>, resFile |-> <<>>]
    /\ \E o \in {"SetTags", "SetBaggage"}, r \in {"StartSpan", "Export"} :
         gor = [op |-> [g \in Goroutines |->
                          IF g = "owner" THEN o ELSE IF g = "finisher" THEN "Finish" ELSE r],
                pc |-> [g \in Goroutines |-> 1],
                lock |-> "free"]
    /\ started = NotStarted
    /\ large = NotExported
    /\ pending = NoPending
    /\ spanCall = NoSpanCall
    /\ stream = NoStream

NextLock ==
    \/ DoLockStep
    \/ DoUnlockStep
    \/ DoAccessStep

SpecLock == InitLock /\ [][NextLock]_vars

\* One StartSpan call, the headers of its span sent to a peer, its Finish.
NextStart ==
    \/ DoProviderStartSpan
    \/ ToHeader
    \/ ParseHeaders
    \/ DoFinishStarted

SpecStart == Init /\ [][NextStart]_vars

\* A span started with explicit or inherited baggage, its owner calling
\* SetBaggage, and children started in its context.
NextBaggage ==
    \/ DoProviderStartSpan
    \/ DoSetBaggageStarted
    \/ DoChildStartSpan

SpecBaggage == Init /\ [][NextBaggage]_vars

\* One span with a plain-text input, finished and exported.
NextLarge ==
    \/ DoSetTextInput
    \/ FinishSpan
    \/ DoLargeExportSpans
    \/ DoLargeExportFiles

SpecLarge == InitSpan /\ [][NextLarge]_vars

\* ======================================================================
\* Properties
\* ======================================================================
\* The export round of queue q completes in this step.
RoundDone(q) == inflight[q] # <<>> /\ inflight'[q] = <<>>

\* The round of span queue q that completes in this step issued an ingest
\* POST, and the POST succeeded / failed.
PostSucceeded(q) ==
    \E i \in DOMAIN inflight[q] : ingested'[inflight[q][i]] = ingested[inflight[q][i]] + 1
PostFailed(q) ==
    \E i \in DOMAIN inflight[q] :
        /\ posts'[inflight[q][i]][q] = posts[inflight[q][i]][q] + 1
        /\ ingested'[inflight[q][i]] = ingested[inflight[q][i]]

\* The attachments the extractor produces from a batch, in order.
Attachments(batch) == SelectSeq(batch, LAMBDA s : kind[s] = "file")

\* The longest prefix of xs that still fits into queue t.
Fitting(t, xs, cap) ==
    IF Len(queue[t]) + Len(xs) <= cap THEN xs ELSE SubSeq(xs, 1, cap - Len(queue[t]))

\* How many times item x is in queue q or in the batch its worker is exporting.
HeldIn(q, x) == Count(queue[q] \o inflight[q], x)

AllDrained == \A q \in Queues : Drained(q)

\* C1: however many times Finish is called on a span, and however the calls
\* interleave, OnSpanEnd is invoked exactly once for it: the first call moves
\* the finished flag from 0 to 1, only that call hands the span over, and
\* the flag never goes back.
C1_FinishOnce ==
    /\ [](\A s \in Spans :
            /\ onSpanEnd[s] <= 1
            /\ (finishCalls[s] >= 1) <=> (spanSt[s] = "fin")
            /\ (s \in finishing) => (spanSt[s] = "fin" /\ onSpanEnd[s] = 0)
            /\ (spanSt[s] = "fin" /\ s \notin finishing) => onSpanEnd[s] = 1)
    /\ [][\A s \in Spans : spanSt[s] = "fin" => spanSt'[s] = "fin"]_vars

C1_Witness ==
    \E s \in Spans :
        finishCalls[s] = MaxFinishCalls /\ s \notin finishing /\ onSpanEnd[s] = 1

\* C2: when the ingest POST of a batch succeeds, from either span queue,
\* Enqueue is called on the file queue once for each attachment extracted
\* from the batch, in order, and on no other queue: the file queue grows by
\* exactly these attachments (by as many of them as its capacity admits),
\* no attachment ever enters it twice, and no span of the batch is enqueued
\* into span_retry.
C2_FileEnqueue ==
    /\ [](\A s \in Spans : fileAcc[s] <= 1 /\ (fileAcc[s] = 1 => ingested[s] = 1))
    /\ [][\A q \in SpanQs :
            (RoundDone(q) /\ PostSucceeded(q)) =>
                /\ queue'["file"] = queue["file"] \o
                      Fitting("file", Attachments(inflight[q]), MaxFileQueueLength)
                /\ queue'["span_retry"] = queue["span_retry"]]_vars

C2_Witness ==
    \E s, r \in Spans :
        /\ kind[s] = "file" /\ ingested[s] = 1 /\ fileAcc[s] = 1
        /\ posts[s]["span_retry"] = 1
        /\ kind[r] = "file" /\ ingested[r] = 1 /\ fileAcc[r] = 1
        /\ posts[r]["span_retry"] = 0

\* C3: when the ingest POST of a batch taken from the span queue fails, each
\* span of the batch is enqueued into span_retry once and no more, and no
\* attachment of the batch reaches the file queue.
C3_FailedBatch ==
    /\ [](\A s \in Spans : HeldIn("span_retry", s) <= 1)
    /\ [][(RoundDone("span") /\ PostFailed("span")) =>
            /\ queue'["span_retry"] = queue["span_retry"] \o
                  Fitting("span_retry", inflight["span"], DefaultMaxQueueLength)
            /\ queue'["file"] = queue["file"]
            /\ fileAcc' = fileAcc]_vars

C3_Witness ==
    \E s, r \in Spans :
        /\ s # r
        /\ kind[s] = "file" /\ posts[s]["span"] = 1 /\ ingested[s] = 0
        /\ posts[r]["span"] = 1 /\ ingested[r] = 0
        /\ Count(queue["span_retry"], s) = 1 /\ Count(queue["span_retry"], r) = 1
        /\ fileAcc[s] = 0

\* C4: a span is in at most one ingest POST from the span queue and at most
\* one from the span_retry queue; once its POST from span_retry has failed it
\* is in no queue, and neither is an attachment of it.
C4_AtMostTwoPosts ==
    \A s \in Spans :
        /\ posts[s]["span"] <= 1
        /\ posts[s]["span_retry"] <= 1
        /\ (posts[s]["span_retry"] = 1 /\ ingested[s] = 0) =>
               ((\A q \in Queues : HeldIn(q, s) = 0) /\ fileAcc[s] = 0)

C4_Witness ==
    \E s \in Spans :
        posts[s]["span"] = 1 /\ posts[s]["span_retry"] = 1 /\ ingested[s] = 0

\* The number of items each queue holds or is exporting, upstream first.
Load == [q \in Queues |-> Len(queue[q]) + Len(inflight[q])]

\* The load went down in the first queue in which it changed.
LoadDecreased ==
    \E i \in DOMAIN ShutdownOrder :
        /\ Load'[ShutdownOrder[i]] < Load[ShutdownOrder[i]]
        /\ \A j \in 1 .. i - 1 : Load'[ShutdownOrder[j]] = Load[ShutdownOrder[j]]

\* C5: whatever the upload endpoint does, a file is uploaded at most once
\* from the file queue and at most once from file_retry; a round of file_retry
\* puts nothing back into any queue; and every export round lowers the load of
\* the queues in the order span, span_retry, file, file_retry, so that once no
\* more spans are finished the queues are empty after finitely many rounds.
C5_FileRetryEnds ==
    /\ [](\A s \in Spans :
            /\ uploads[s]["file"] <= 1
            /\ uploads[s]["file_retry"] <= 1
            /\ HeldIn("file", s) + HeldIn("file_retry", s) <= 1
            /\ uploads[s]["file_retry"] = 1 => \A q \in FileQs : HeldIn(q, s) = 0)
    /\ [][(RoundDone("file_retry") => queue' = queue)
          /\ ((\E q \in Queues : RoundDone(q)) => LoadDecreased)
          /\ ((\E q \in Queues : inflight[q] = <<>> /\ inflight'[q] # <<>>) =>
                 Load' = Load)]_vars

C5_Witness ==
    \E s \in Spans :
        /\ uploads[s]["file"] = 1 /\ uploads[s]["file_retry"] = 1 /\ uploaded[s] = 0
        /\ AllDrained

\* C6: once Finish has handed the span to the processor, a mutator call
\* changes nothing: tags, system tags, baggage, multi_modality_keys,
\* status_code and bytes_size stay as they were handed over.
C6_ReadOnlyAfterFinish ==
    handed # <<>> => Fields(obj) = handed[1]

\* The pairs (a, b) of queues such that the export function of a enqueues into b.
Feeds ==
    {<<"span", "span_retry">>, <<"span", "file">>,
     <<"span_retry", "file">>, <<"file", "file_retry">>}

\* C7: Shutdown takes the queues in the order span, span_retry, file,
\* file_retry: no export function ever calls Enqueue on a queue that has been
\* shut down, and when a queue starts shutting down every queue that feeds it
\* has completed its shutdown and holds nothing.
C7_ShutdownOrder ==
    /\ ~lateEnqueue
    /\ \A p \in Feeds :
          (closePc = p[2] \/ stopped[p[2]]) => (stopped[p[1]] /\ Drained(p[1]))

C7_Witness ==
    /\ closePc = "file"
    /\ stopped["span"] /\ stopped["span_retry"]
    /\ inflight["file"] # <<>>
    /\ \E s \in Spans : posts[s]["span_retry"] = 1 /\ fileAcc[s] = 1

\* Close has returned, its deadline did not expire, and no span was finished
\* after Close was called.
CloseReturned == closePc = "done" /\ ~closeErr /\ ~closeDirty

\* No ingest POST and no upload has failed.
NoEndpointFailure ==
    \A s \in Spans :
        /\ posts[s]["span"] = ingested[s] /\ posts[s]["span_retry"] = 0
        /\ uploads[s]["file"] = uploaded[s] /\ uploads[s]["file_retry"] = 0

C9_FlushDrains ==
    (flushPc = "ok" /\ ~flushDirty) =>
        /\ AllDrained
        /\ \A s \in Spans :
              /\ (spanSt[s] = "fin" /\ kind[s] # "bad") => posts[s]["span"] = 1
              /\ (posts[s]["span"] = 1 /\ ingested[s] = 0) => posts[s]["span_retry"] = 1

C9_Witness ==
    /\ flushPc = "ok" /\ ~flushDirty
    /\ \E s \in Spans : posts[s]["span_retry"] = 1
    /\ \E s \in Spans : uploads[s]["file_retry"] = 1

\* C10: once Close has returned, GetPrompt and PromptFormat return
\* ErrClientClosed, StartSpan, GetSpanFromContext and GetSpanFromHeader return
\* the no-op span, Flush returns at once, and none of these calls, nor Finish
\* on the no-op span, starts a span, starts a flush or enqueues anything.
C10_ClosedClient ==
    /\ [](/\ postCloseCall.op \in {"GetPrompt", "PromptFormat"} =>
               postCloseCall.res = "ErrClientClosed"
          /\ postCloseCall.op \in {"StartSpan", "GetSpanFromContext", "GetSpanFromHeader"} =>
               postCloseCall.res = "noopSpan"
          /\ postCloseCall.op \in {"Flush", "Finish"} => postCloseCall.res = "return"
          /\ postCloseCall.op # "none" => closed)
    /\ [][closed =>
            /\ \A s \in Spans : spanSt[s] = "none" => spanSt'[s] = "none"
            /\ flushPc \in {"idle", "ok", "err"} => flushPc' = flushPc
            /\ postCloseCall' # postCloseCall =>
                  UNCHANGED <<spanVars, queueVars, clientVars, histVars>>]_vars

C10_Witness ==
    /\ closed
    /\ postCloseCall.op = "Finish"
    /\ \E s \in Spans : spanSt[s] = "none"

\* C11: of two NewClient calls made one after the other, the second returns
\* the client of the first when the options are identical, and a different
\* client when they differ in a field that goes into the fingerprint.
C11_Singleton ==
    \A i, j \in DOMAIN returned :
        (i < j /\ returned[i].err = "nil" /\ returned[j].err = "nil") =>
            ((returned[i].opts = returned[j].opts) <=>
             (returned[i].client = returned[j].client))

\* C12: a NewClient call always returns a usable client, also after a client
\* has been closed and also with the options of the closed client: StartSpan
\* on the returned client goes to the trace provider.
C12_NewAfterClose ==
    \A i \in DOMAIN returned :
        returned[i].err = "nil" => returned[i].startSpan = "provider"

C14_EmptySpanSafe ==
    /\ ~obj.panicked
    /\ obj \in {NilSpan, ZeroSpan}
    /\ handed = <<>>

\* ----------------------------------------------------------------------
\* The reserved-key table of the specification: the keys of
\* consts.ReserveFieldTypes with their types, error as a string and
\* _status_code as an int32.
ReservedKeyTable ==
    [key \in ReservedTagKeys |->
        IF key \in DOMAIN ReserveFieldTypes THEN ReserveFieldTypes[key]
        ELSE IF key = "error" THEN {"string"} ELSE {"int32"}]

\* The tag a span holds under a key.
NoTag == [text |-> "", bytes |-> 0, type |-> "absent"]
TagOf(o, key) == IF key \in DOMAIN o.TagMap THEN o.TagMap[key] ELSE NoTag

C16_AtMostOnce ==
    \A s \in Spans :
        /\ ingested[s] <= 1
        /\ ingested[s] = 1 => HeldIn("span", s) = 0 /\ HeldIn("span_retry", s) = 0

\* A span whose first POST failed and whose retry POST succeeded.
C16_Witness ==
    \E s \in Spans :
        /\ finishCalls[s] = 1
        /\ posts[s]["span"] = 1 /\ posts[s]["span_retry"] = 1
        /\ ingested[s] = 1

\* ----------------------------------------------------------------------
\* C17: no key is held by the user tag map and by the system tag map of a
\* span at the same time.
C17_DisjointTagMaps ==
    DOMAIN obj.TagMap \cap SystemTagMapKeys(obj) = {}

\* ----------------------------------------------------------------------
\* C18: every key of multi_modality_keys is a key of the tag map, and the
\* tag held under it is a text.
C18_MultiModalityKeysTagged ==
    \A key \in obj.multiModalityKeyMap :
        key \in DOMAIN obj.TagMap /\ obj.TagMap[key].type = "string"

\* ----------------------------------------------------------------------
\* The capacity of each queue: that of the span queues for span and
\* span_retry, that of the file queues for file and file_retry.
QueueCapacity ==
    [q \in Queues |->
        IF q \in {"span", "span_retry"} THEN DefaultMaxQueueLength ELSE MaxFileQueueLength]

\* OnSpanEnd ran in this step.
OnSpanEndStep == \E s \in Spans : onSpanEnd'[s] = onSpanEnd[s] + 1

\* The worker of q finished an export round in this step.
ExportRoundStep(q) == inflight[q] # <<>> /\ inflight'[q] = <<>>

\* C19: no queue ever holds more items than its capacity. A Finish that
\* finds the span queue full returns in the same step and leaves the queue
\* as it was; an export round always completes, and what it enqueues into
\* another queue is appended only as far as that queue's capacity allows.
C19_BoundedQueues ==
    /\ [](\A q \in Queues : Len(queue[q]) <= QueueCapacity[q])
    /\ [][(OnSpanEndStep /\ Len(queue["span"]) = QueueCapacity["span"])
               => (queue' = queue /\ finishing' \subseteq finishing)]_vars
    /\ [][\A q \in Queues :
              ExportRoundStep(q) =>
                  \A t \in Queues \ {q} :
                      /\ Len(queue'[t]) <= QueueCapacity[t]
                      /\ Len(queue'[t]) >= Len(queue[t])
                      /\ SubSeq(queue'[t], 1, Len(queue[t])) = queue[t]]_vars

\* A span that was finished while the span queue held its capacity: it was
\* handed to OnSpanEnd, and it is in no queue and in no POST.
C19_Witness ==
    /\ Len(queue["span"]) = QueueCapacity["span"]
    /\ \E s \in Spans :
          /\ onSpanEnd[s] = 1
          /\ \A q \in Queues : HeldIn(q, s) = 0
          /\ posts[s]["span"] = 0 /\ posts[s]["span_retry"] = 0

\* ----------------------------------------------------------------------
\* The worker of q handed a batch to its exporter in this step.
ExportBeginStep(q) == inflight'[q] # inflight[q] /\ inflight'[q] # <<>>

\* The span has been handed to the exporter of the span queue.
ExportedFromSpanQueue(s) ==
    Count(inflight["span"], s) > 0 \/ posts[s]["span"] > 0

\* C20: a worker hands a batch to its exporter only when its previous
\* invocation has returned; the batch is the head of the queue and the rest
\* stays queued in order; every other step only appends to a queue. For the
\* span queue, whose items are numbered in the order of their Finish: a span
\* still queued was finished after every span handed to the exporter.
C20_OneExporterFIFO ==
    /\ [][\A q \in Queues :
              IF ExportBeginStep(q)
                THEN /\ inflight[q] = <<>>
                     /\ queue[q] = inflight'[q] \o queue'[q]
                ELSE /\ Len(queue'[q]) >= Len(queue[q])
                     /\ SubSeq(queue'[q], 1, Len(queue[q])) = queue[q]]_vars
    /\ [](\A i \in DOMAIN queue["span"] : \A s \in Spans :
             ExportedFromSpanQueue(s) => s < queue["span"][i])

\* The span queue has released two batches, the first has been posted, the
\* second is with the exporter, and a span finished later is still queued.
C20_Witness ==
    /\ posts[1]["span"] = 1
    /\ inflight["span"] = <<2>>
    /\ queue["span"] = <<3>>

\* ----------------------------------------------------------------------
\* C21: once the Shutdown of a queue has returned the queue holds nothing
\* and never does again, whoever calls Enqueue, and its worker hands no
\* further batch to the exporter; a ForceFlush that comes to such a queue
\* returns nil in one step, whatever the queue's worker is doing, and
\* changes no queue.
C21_RejectAfterShutdown ==
    /\ [](\A q \in Queues : stopped[q] => queue[q] = <<>>)
    /\ [][\A q \in Queues :
              stopped[q] => (queue'[q] = <<>> /\ ~ExportBeginStep(q))]_vars
    /\ [][\A q \in Queues :
              (flushPc = q /\ stopped[q] /\ flushPc' # flushPc)
                  => /\ flushPc' = IF After(ForceFlushOrder, q) = "end" THEN "ok"
                                   ELSE After(ForceFlushOrder, q)
                     /\ UNCHANGED queueVars]_vars

\* A span was finished after the Shutdown of the span queue had returned and
\* before the processor was stopped: OnSpanEnd called Enqueue, and the span
\* is in no queue and in no POST.
C21_Witness ==
    \E s \in Spans :
        /\ stopped["span"] /\ ~procStopped
        /\ onSpanEnd[s] = 1
        /\ \A q \in Queues : HeldIn(q, s) = 0
        /\ posts[s]["span"] = 0 /\ posts[s]["span_retry"] = 0

\* ----------------------------------------------------------------------
\* The results after which the claim has Retry call f again.
IsRetried(res) == res \in {"Remote500", "transport", "generic"}

\* C22: f is called once more exactly as long as every result so far is a
\* transport or generic error or a RemoteServiceError with http code 500 or
\* above, and never more than retryTimes times; so Retry has returned after
\* the first call whose result is nil, an AuthError or a RemoteServiceError
\* below 500, or after retryTimes calls, and it returns the result of the
\* last call.
C22_Retry ==
    /\ Len(retry.results) <= retry.retryTimes
    /\ \A i \in 1 .. Len(retry.results) - 1 : IsRetried(retry.results[i])
    /\ retry.pc = "loop" => \A i \in DOMAIN retry.results : IsRetried(retry.results[i])
    /\ retry.pc = "returned" =>
          /\ retry.results # <<>>
          /\ retry.err = retry.results[Len(retry.results)]
          /\ (~IsRetried(retry.err) \/ Len(retry.results) = retry.retryTimes)

\* Retry returned a RemoteServiceError with http code 500 after calling f
\* retryTimes times, more than once.
C22_Witness ==
    /\ retry.pc = "returned"
    /\ retry.retryTimes > 1
    /\ Len(retry.results) = retry.retryTimes
    /\ retry.err = "Remote500"

\* ----------------------------------------------------------------------
\* An entry is well formed when it is k=v with exactly one '=' and both k
\* and v can be URL-unescaped.
WellFormed(entry) ==
    LET kv == Split(TrimSpace(entry), "=")
    IN  Len(kv) = 2 /\ ~QueryUnescape(kv[1]).err /\ ~QueryUnescape(kv[2]).err

KeyOf(entry) == QueryUnescape(Split(TrimSpace(entry), "=")[1]).val
ValueOf(entry) == QueryUnescape(Split(TrimSpace(entry), "=")[2]).val

\* C29: once the header is parsed, the baggage holds exactly the keys of the
\* well-formed entries, each with the value of the last well-formed entry
\* of that key, whatever malformed entries stand before or after them.
C29_TolerantParse ==
    header.pc = "parsed" =>
        LET es == header.entries
            good == {i \in DOMAIN es : WellFormed(es[i])}
        IN  /\ DOMAIN header.baggage = {KeyOf(es[i]) : i \in good}
            /\ \A i \in good :
                  (\A j \in good : j > i => KeyOf(es[j]) # KeyOf(es[i]))
                      => header.baggage[KeyOf(es[i])] = ValueOf(es[i])

\* ----------------------------------------------------------------------
\* The owner's call in this step set the error tag: SetError, or SetTags
\* with the key error.
ErrorTagStep ==
    /\ mutations' = mutations + 1
    /\ \E err \in TagValues : obj' \in {SetError(obj, err), SetTags(obj, "error", err)}

\* The owner's call in this step was SetStatusCode(code).
StatusCodeStep(code) ==
    /\ mutations' = mutations + 1
    /\ obj' = [obj EXCEPT !.StatusCode = code]

\* C28: setting the error tag on a span whose status code is 0 sets the
\* status code to the default error code, and on a span whose status code is
\* not 0 leaves it as it is; so the code given to SetStatusCode, when not 0,
\* is still the status code after a following SetError.
C28_DefaultStatusCode ==
    /\ [][ErrorTagStep =>
             obj'.StatusCode = IF obj.StatusCode = 0 THEN StatusCodeErrorDefault
                               ELSE obj.StatusCode]_vars
    /\ [][\A code \in StatusCodes \ {0} :
             StatusCodeStep(code) =>
                 /\ obj'.StatusCode = code
                 /\ \A err \in TagValues : SetError(obj', err).StatusCode = code]_vars

C28_Witness ==
    /\ obj.StatusCode = StatusCodeErrorDefault
    /\ "error" \in DOMAIN obj.TagMap
    /\ obj.isFinished = 0

\* ----------------------------------------------------------------------
\* Extraction fails for a span when the converter of one of its keys fails.
ExtractionFails(span) == span.input = "broken" \/ span.output = "broken"

\* C30: when a batch has been converted, a span whose extraction failed has
\* no upload span and no upload file in the result, whatever its other key
\* had produced, and every other span of the batch has exactly one upload
\* span, in batch order, and the files of both its keys.
C30_SkipFailedSpan ==
    transfer.pc = "converted" =>
        /\ \A i \in DOMAIN transfer.spans :
              IF ExtractionFails(transfer.spans[i])
                THEN /\ Count(transfer.resSpan, i) = 0
                     /\ \A j \in DOMAIN transfer.resFile : transfer.resFile[j].of # i
                ELSE /\ Count(transfer.resSpan, i) = 1
                     /\ \A key \in {"input", "output"} :
                          transfer.spans[i][key] \in {"large", "parts"}
                              => \E j \in DOMAIN transfer.resFile :
                                    transfer.resFile[j] = File(i, key, FALSE)
        /\ \A j, k \in DOMAIN transfer.resSpan :
              j < k => transfer.resSpan[j] < transfer.resSpan[k]

C30_Witness ==
    /\ transfer.pc = "converted"
    /\ Len(transfer.spans) = 2
    /\ transfer.spans[1] = [input |-> "parts", output |-> "broken"]
    /\ transfer.spans[2] = [input |-> "large", output |-> "text"]
    /\ transfer.resSpan = <<2>>
    /\ transfer.resFile = <<File(2, "input", FALSE), File(2, "output", TRUE)>>

\* ----------------------------------------------------------------------
\* C25: an attachment of a span is in a file queue, or in an upload, only
\* when an ingest POST that contained the span has returned success: while
\* no such POST has succeeded, no attachment of the span has been enqueued,
\* is queued, or has been offered to the upload endpoint.
C25_FileAfterIngest ==
    \A s \in Spans :
        ingested[s] = 0 =>
            /\ fileAcc[s] = 0
            /\ \A q \in FileQs : HeldIn(q, s) = 0 /\ uploads[s][q] = 0
            /\ uploaded[s] = 0

C25_Witness ==
    \E s, r \in Spans :
        /\ kind[s] = "file" /\ posts[s]["span"] = 1 /\ posts[s]["span_retry"] = 1
        /\ ingested[s] = 1 /\ uploaded[s] = 1
        /\ kind[r] = "file" /\ posts[r]["span"] = 1 /\ posts[r]["span_retry"] = 1
        /\ ingested[r] = 0 /\ fileAcc[r] = 0
        /\ \A q \in Queues : HeldIn(q, r) = 0

\* ----------------------------------------------------------------------
\* Goroutine g is about to read or write the field.
Accessing(g, field) ==
    ~Returned(g) /\ MayRun(g) /\ NextStep(g).kind \in {"read", "write"}
        /\ NextStep(g).field = field

\* C26: a goroutine that is about to read or write one of the guarded fields
\* of the span holds the span's lock, so no two goroutines are at an access
\* of the same field with one of them writing.
C26_LockHeld ==
    /\ \A g \in Goroutines, field \in GuardedFields :
          Accessing(g, field) => gor.lock = g
    /\ \A g, h \in Goroutines, field \in GuardedFields :
          (g # h /\ Accessing(g, field) /\ Accessing(h, field))
              => (NextStep(g).kind = "read" /\ NextStep(h).kind = "read")

\* ----------------------------------------------------------------------
\* The span of the context is inherited from.
Inherits == ~started.parent.isNil /\ ~started.opts.StartNewTrace

\* The items of a baggage map that a span keeps: those whose key holds
\* neither ',' nor '='.
KeptItems(m) ==
    [k \in {key \in DOMAIN m : \A i \in DOMAIN key : key[i] # "," /\ key[i] # "="} |-> m[k]]

Unescaped(m) ==
    [k \in {QueryUnescape(key).val : key \in DOMAIN m} |->
        QueryUnescape(m[CHOOSE key \in DOMAIN m : QueryUnescape(key).val = k]).val]

\* C23: when the headers ToHeader emitted for the span StartSpan returned
\* have been parsed by FromHeader, the span context has the trace id and the
\* span id of the span, and its baggage is the URL-unescaped baggage of the
\* span.
C23_HeaderRoundTrip ==
    started.pc = "parsed" =>
        /\ started.ctx.TraceID = started.span.TraceID
        /\ started.ctx.SpanID = started.span.SpanID
        /\ started.ctx.Baggage = Unescaped(started.span.Baggage)

\* ----------------------------------------------------------------------
\* C24: after Finish the duration of the span is not negative, and it is
\* the wall-clock time of Finish minus the start time in microseconds, to
\* within one microsecond, whatever start time the caller passed.
C24_Duration ==
    started.finished =>
        /\ started.span.Duration >= 0
        /\ started.span.Duration * 1000 - (started.finishTime - started.span.StartTime)
              \in -999 .. 999

\* ----------------------------------------------------------------------
\* SetTags discards the entry key: value on span o: the key is in the
\* reserved-key table and the value's type is not one of the key's types, or
\* the span already holds the maximum number of tags.
Discards(o, key, value) ==
    \/ (key \in DOMAIN ReserveFieldTypes /\ value.type \notin ReserveFieldTypes[key])
    \/ Cardinality(DOMAIN o.TagMap) >= MaxTagKvCountInOneSpan

\* C31: an entry that SetTags discards leaves tags, the cut_off system tag,
\* status_code and bytes_size as they were before the call.
C31_DiscardWhole ==
    \A key \in ReservedTagKeysPassed \cup SystemTagKeys, value \in TypedValues \cup TagValues :
        Discards(obj, key, value) =>
            LET after == SetTags(obj, key, value)
            IN  /\ after.TagMap = obj.TagMap
                /\ after.cutOff = obj.cutOff
                /\ after.StatusCode = obj.StatusCode
                /\ after.bytesSize = obj.bytesSize

\* ----------------------------------------------------------------------
\* The span was ingested with a plain-text input over the input limit, on a
\* provider with ultra_large_report.
LargeIngested ==
    /\ obj.ultraLargeReport
    /\ large.pc \in {"file", "file_retry", "done", "dropped"}
    /\ large.src.bytes > MaxIOBytes

\* The file of the input as the claim describes it.
InputFile ==
    /\ ~large.file.isNil
    /\ large.file.TosKey = <<"trace", "span", "input", "text", "large_text">>
    /\ large.file.UploadType = "long"
    /\ large.file.Data = large.src
    /\ large.input = [large.src EXCEPT !.bytes = TextTruncateCharLength]

C39_OnlyIOOversized ==
    obj \notin {NilSpan, ZeroSpan} =>
        \A key \in DOMAIN obj.TagMap \ {"input", "output"} :
            obj.TagMap[key].type = "string" => obj.TagMap[key].bytes <= MaxValueBytes

\* ----------------------------------------------------------------------
\* The string holds a baggage delimiter.
HasDelimiter(str) == \E i \in DOMAIN str : str[i] = "," \/ str[i] = "="

\* C33: every key of the baggage map of a span is free of ',' and '=',
\* whether the owner set it with SetBaggage (stored escaped), the span
\* inherited it from the span of the context, or it was passed to StartSpan
\* explicitly (stored as decoded from a header).
C33_BaggageKeys ==
    /\ \A key \in DOMAIN started.span.Baggage : ~HasDelimiter(key)
    /\ \A key \in DOMAIN started.parent.Baggage : ~HasDelimiter(key)

\* A child span that was given the baggage decoded from a header with the
\* keys "k," and "a": it keeps a only, and its owner then added "k w".
C33_Witness ==
    /\ started.pc = "started"
    /\ ~started.parent.isNil
    /\ <<"k", "+", "w">> \in DOMAIN started.parent.Baggage
    /\ ~started.opts.Baggage.isNil
    /\ DOMAIN started.opts.Baggage.items = {<<"k", ",">>, <<"a">>}
    /\ DOMAIN started.span.Baggage = {<<"a">>, <<"%", "2", "5">>}

\* ----------------------------------------------------------------------
\* The files a file queue holds or its worker is exporting, each named by
\* its span.
FilesIn(q) == queue[q] \o inflight[q]

\* C34: no nil file is in the file or the file_retry queue or in a batch
\* handed to ExportFiles or to the retry loop of newExportFilesFunc (which
\* reads bat.Data of every file of the batch): every file there is the
\* attachment of a span that has one, although the file list of a span with
\* a short plain output holds a nil entry.
C34_NoNilFile ==
    \A q \in FileQs : \A i \in DOMAIN FilesIn(q) : kind[FilesIn(q)[i]] = "file"

\* A span whose file list holds a nil entry was ingested in a successful
\* POST while the attachment of another span went to the file queue.
C34_Witness ==
    \E s, f \in Spans :
        /\ kind[s] = "text" /\ ingested[s] > 0
        /\ kind[f] = "file" /\ HeldIn("file", f) > 0

\* ----------------------------------------------------------------------
\* C35: every file is uploaded successfully at most once, also when another
\* file of its batch fails.
C35_UploadOnce == \A s \in Spans : uploaded[s] <= 1

\* ----------------------------------------------------------------------
\* C36: once Shutdown has returned, with nil or with an error, all four
\* queues have been shut down and the processor's stopped flag is set, so
\* that an OnSpanEnd that runs afterwards returns without enqueuing.
C36_ShutdownComplete ==
    closePc = "done" => (procStopped /\ \A q \in Queues : stopped[q])

\* ----------------------------------------------------------------------
\* C37: with NewClient called by several goroutines at the same time, at
\* most one client is built for a fingerprint of options, and every call
\* made with those options returns that client.
C37_OneClientPerFingerprint ==
    /\ \A c, d \in DOMAIN clients :
          MD5(clients[c].opts) = MD5(clients[d].opts) => c = d
    /\ \A i, j \in DOMAIN returned :
          (returned[i].err = "nil" /\ returned[j].err = "nil"
             /\ MD5(returned[i].opts) = MD5(returned[j].opts))
            => returned[i].client = returned[j].client

\* ----------------------------------------------------------------------
\* C38: StartSpan given a non-nil context never returns a nil context: a
\* live client returns the context with the new span in it, a closed client
\* and the no-op client return the caller's context and the no-op span.
C38_ContextReturned ==
    spanCall.client # "none" =>
        /\ ~spanCall.resCtx.isNil
        /\ IF spanCall.client = "loop" /\ ~spanCall.wasClosed
             THEN /\ spanCall.resCtx = WithValue(spanCall.ctx, "span")
                  /\ spanCall.resSpan = "span"
             ELSE /\ spanCall.resCtx = spanCall.ctx
                  /\ spanCall.resSpan = "noopSpan"

\* ----------------------------------------------------------------------
\* C40: once the stream reader is closed, the decoder goroutine eventually
\* returns and its channel is closed, however many events are unread.
C40_DecoderTerminates ==
    stream.closed ~> (stream.pc = "done" /\ stream.eventsClosed)

====
